---- MODULE Spec2Model ----
(***************************************************************************)
(* Components of dc_custom_component:                                      *)
(*   parsers/json_parser.py          JsonParser                            *)
(*   parsers/chat_history_parser.py  DeepsetChatHistoryParser              *)
(*   parsers/regex_parser.py         RegexParser                           *)
(*   ci/ci_output_parser.py          CIOutputParser                        *)
(*   github/file_editor.py           GithubFileEditor                      *)
(*   jira/jira_issue_viewer.py       JiraIssueViewer                       *)
(*                                                                         *)
(* A text is a sequence of characters, each a one-character string; the    *)
(* backquote, which a TLA+ string cannot hold, is the atom BQ.  Positions  *)
(* are 1-based (Python's are 0-based), and "not found" is 0 (Python: -1).  *)
(* Python values are records [t |-> type, v |-> payload].  A parser is a   *)
(* pure function of its input: its specification draws the input in the   *)
(* initial state and one action applies the handler.  GithubFileEditor and *)
(* JiraIssueViewer talk to a service: their specifications take one step   *)
(* per HTTP request, and the service changes between the steps.            *)
(***************************************************************************)
EXTENDS Integers, Sequences, FiniteSets, TLC

VARIABLES
    input,      \* the argument the handler is called with
    output,     \* what the handler returned (or that it raised)
    pc,         \* "ready" before the call, the handler's name after it
    remote,     \* the state of the service the handler talks to
    sent,       \* the HTTP requests made so far, in order
    locals      \* the local variables of the running handler

vars == <<input, output, pc, remote, sent, locals>>

\* a parser talks to no service
NoService == remote = <<>> /\ sent = <<>> /\ locals = <<>>

(***************************************************************************)
(* Characters and Python's str operations                                  *)
(***************************************************************************)
Chars(s) == [i \in 1..Len(s) |-> SubSeq(s, i, i)]

BQ == "BQ"
NL == "\n"
QUOTE == "\""

\* str.isspace for the characters the inputs use
IsSpace(c) == c \in {" ", NL, "\t", "\r"}

IsDigit(c) == c \in {"0", "1", "2", "3", "4", "5", "6", "7", "8", "9"}

DigitChars == <<"0", "1", "2", "3", "4", "5", "6", "7", "8", "9">>

DigitVal(c) == (CHOOSE i \in 1..Len(DigitChars) : DigitChars[i] = c) - 1

Min(S) == CHOOSE x \in S : \A y \in S : x <= y

\* s[i-1:].startswith(sub)
StartsWithAt(s, sub, i) ==
    /\ i >= 1
    /\ i + Len(sub) - 1 <= Len(s)
    /\ SubSeq(s, i, i + Len(sub) - 1) = sub

\* s.find(sub, from-1) + 1
Find(s, sub, from) ==
    LET hits == {i \in from..(Len(s) - Len(sub) + 1) : StartsWithAt(s, sub, i)}
    IN  IF hits = {} THEN 0 ELSE Min(hits)

\* s.strip()
Strip(s) ==
    LET keep == {i \in 1..Len(s) : ~IsSpace(s[i])}
    IN  IF keep = {} THEN <<>>
        ELSE SubSeq(s, Min(keep), CHOOSE j \in keep : \A k \in keep : k <= j)

RECURSIVE Concat(_)
Concat(ss) == IF ss = <<>> THEN <<>> ELSE Head(ss) \o Concat(Tail(ss))

\* all sequences over S of length at most n
SeqsUpTo(S, n) == UNION {[1..k -> S] : k \in 0..n}

(***************************************************************************)
(* Python values                                                           *)
(***************************************************************************)
PyStr(cs)   == [t |-> "str", v |-> cs]
PyInt(n)    == [t |-> "int", v |-> n]
PyBool(b)   == [t |-> "bool", v |-> b]
PyNone      == [t |-> "NoneType", v |-> <<>>]
PyList(xs)  == [t |-> "list", v |-> xs]
\* a dict is a function from its keys (Python values) to their values
PyDict(f)   == [t |-> "dict", v |-> f]
EmptyDict   == PyDict(<<>>)

\* d[k] = val, the last assignment of a key winning
DictSet(f, k, val) ==
    [x \in (DOMAIN f) \cup {k} |-> IF x = k THEN val ELSE f[x]]

(***************************************************************************)
(* JsonParser.find_matching_braces                                         *)
(***************************************************************************)
\* lines 95-96: the start is recorded only when the stack is empty
BraceStartAlways(stack, i, start) == i

BraceStart(stack, i, start) == IF stack = <<>> THEN i ELSE start

\* line 100 with the whole stack dropped instead of its top
BracePopAll(stack) == <<>>

\* line 100: stack.pop()
BracePop(stack) == SubSeq(stack, 1, Len(stack) - 1)

\* line 97 with the "{" pushed only on an empty stack
BracePushOnce(stack, char) == IF stack = <<>> THEN <<char>> ELSE stack

\* line 97: stack.append(char)
BracePush(stack, char) == Append(stack, char)

RECURSIVE BraceScan(_, _, _, _, _)
BraceScan(text, i, stack, start, results) ==
    IF i > Len(text) THEN results
    ELSE LET char == text[i] IN
         IF char = "{" THEN
            BraceScan(text, i + 1, BracePush(stack, char),
                      BraceStart(stack, i, start), results)
         ELSE IF char = "}" /\ stack # <<>> THEN
            LET popped == BracePop(stack) IN
            BraceScan(text, i + 1, popped, start,
                      IF popped = <<>>
                      THEN Append(results, SubSeq(text, start, i))
                      ELSE results)
         ELSE BraceScan(text, i + 1, stack, start, results)

find_matching_braces(text) == BraceScan(text, 1, <<>>, 0, <<>>)

(***************************************************************************)
(* Specification of find_matching_braces alone                             *)
(***************************************************************************)
MaxBraceLen == 5

BraceAlphabet == {"{", "}", "a"}

BraceExample == Chars("a{b{c}d}e{f}")

BraceInputs == SeqsUpTo(BraceAlphabet, MaxBraceLen) \cup {BraceExample}

InitBrace ==
    /\ input \in BraceInputs
    /\ output = <<>>
    /\ pc = "ready"
    /\ NoService

FindMatchingBraces ==
    /\ pc = "ready"
    /\ output' = find_matching_braces(input)
    /\ pc' = "find_matching_braces"
    /\ UNCHANGED <<input, remote, sent, locals>>

NextBrace == FindMatchingBraces

SpecBrace == InitBrace /\ [][NextBrace]_vars

(***************************************************************************)
(* C1                                                                      *)
(***************************************************************************)
\* number of "{" minus number of "}" among the first n characters
RECURSIVE BraceDepth(_, _)
BraceDepth(text, n) ==
    IF n = 0 THEN 0
    ELSE BraceDepth(text, n - 1)
         + (IF text[n] = "{" THEN 1 ELSE IF text[n] = "}" THEN -1 ELSE 0)

BracesBalanced(text) ==
    /\ \A n \in 1..Len(text) : BraceDepth(text, n) >= 0
    /\ BraceDepth(text, Len(text)) = 0

\* the top-level groups of a balanced text, as <<first, last>> positions
TopLevelGroups(text) ==
    {<<s, e>> \in (1..Len(text)) \X (1..Len(text)) :
        /\ s < e
        /\ text[s] = "{"
        /\ BraceDepth(text, s - 1) = 0
        /\ BraceDepth(text, e) = 0
        /\ \A j \in s..(e - 1) : BraceDepth(text, j) > 0}

ParseOk(val, pos) == [ok |-> TRUE, val |-> val, pos |-> pos]
ParseFail == [ok |-> FALSE, val |-> PyNone, pos |-> 0]

CharAt(s, i) == IF i >= 1 /\ i <= Len(s) THEN s[i] ELSE ""

\* json.decoder.WHITESPACE.match(s, i).end()
JsonSkipWs(s, i) ==
    LET stops == {j \in i..Len(s) : s[j] \notin {" ", "\t", NL, "\r"}}
    IN  IF stops = {} THEN Len(s) + 1 ELSE Min(stops)

\* the position after the run of digits that starts at i
DigitsEnd(s, i) ==
    LET stops == {j \in i..Len(s) : ~IsDigit(s[j])}
    IN  IF stops = {} THEN Len(s) + 1 ELSE Min(stops)

RECURSIVE DigitsToInt(_)
DigitsToInt(ds) ==
    IF ds = <<>> THEN 0
    ELSE 10 * DigitsToInt(SubSeq(ds, 1, Len(ds) - 1)) + DigitVal(ds[Len(ds)])

\* json.decoder.scanstring in strict mode, from the character after the quote
JsonString(s, i) ==
    LET closes == {j \in i..Len(s) : s[j] = QUOTE}
    IN  IF closes = {} THEN ParseFail
        ELSE LET j == Min(closes)
                 body == SubSeq(s, i, j - 1)
             IN  IF \E k \in 1..Len(body) : body[k] \in {NL, "\t", "\r", "\\"}
                 THEN ParseFail
                 ELSE ParseOk(PyStr(body), j + 1)

\* NUMBER_RE: (-?(?:0|[1-9]\d*))
JsonNumber(s, i) ==
    IF s[i] = "0" THEN ParseOk(PyInt(0), i + 1)
    ELSE LET e == DigitsEnd(s, i) IN
         ParseOk(PyInt(DigitsToInt(SubSeq(s, i, e - 1))), e)

RECURSIVE JsonValue(_, _)
RECURSIVE JsonMembers(_, _, _)
RECURSIVE JsonItems(_, _, _)

\* json.scanner.py_make_scanner._scan_once
JsonValue(s, i) ==
    LET c == CharAt(s, i) IN
    IF c = "" THEN ParseFail
    ELSE IF c = QUOTE THEN JsonString(s, i + 1)
    ELSE IF c = "{" THEN
        LET j == JsonSkipWs(s, i + 1) IN
        IF CharAt(s, j) = "}" THEN ParseOk(EmptyDict, j + 1)
        ELSE IF CharAt(s, j) = QUOTE THEN JsonMembers(s, j + 1, <<>>)
        ELSE ParseFail
    ELSE IF c = "[" THEN
        LET j == JsonSkipWs(s, i + 1) IN
        IF CharAt(s, j) = "]" THEN ParseOk(PyList(<<>>), j + 1)
        ELSE JsonItems(s, j, <<>>)
    ELSE IF StartsWithAt(s, Chars("null"), i) THEN ParseOk(PyNone, i + 4)
    ELSE IF StartsWithAt(s, Chars("true"), i) THEN ParseOk(PyBool(TRUE), i + 4)
    ELSE IF StartsWithAt(s, Chars("false"), i) THEN ParseOk(PyBool(FALSE), i + 5)
    ELSE IF IsDigit(c) THEN JsonNumber(s, i)
    ELSE ParseFail

\* json.decoder.JSONObject's loop; i is the position after a key's opening quote
JsonMembers(s, i, acc) ==
    LET key == JsonString(s, i) IN
    IF ~key.ok THEN ParseFail
    ELSE LET colon == JsonSkipWs(s, key.pos) IN
         IF CharAt(s, colon) # ":" THEN ParseFail
         ELSE LET val == JsonValue(s, JsonSkipWs(s, colon + 1)) IN
              IF ~val.ok THEN ParseFail
              ELSE LET pairs == DictSet(acc, key.val, val.val)
                       nxt == JsonSkipWs(s, val.pos)
                   IN  IF CharAt(s, nxt) = "}" THEN ParseOk(PyDict(pairs), nxt + 1)
                       ELSE IF CharAt(s, nxt) # "," THEN ParseFail
                       ELSE LET q == JsonSkipWs(s, nxt + 1) IN
                            IF CharAt(s, q) # QUOTE THEN ParseFail
                            ELSE JsonMembers(s, q + 1, pairs)

\* json.decoder.JSONArray's loop; i is the position of an element
JsonItems(s, i, acc) ==
    LET val == JsonValue(s, i) IN
    IF ~val.ok THEN ParseFail
    ELSE LET items == Append(acc, val.val)
             nxt == JsonSkipWs(s, val.pos)
         IN  IF CharAt(s, nxt) = "]" THEN ParseOk(PyList(items), nxt + 1)
             ELSE IF CharAt(s, nxt) # "," THEN ParseFail
             ELSE JsonItems(s, JsonSkipWs(s, nxt + 1), items)

\* json.loads(s): ok = FALSE stands for json.JSONDecodeError
json_loads(s) ==
    LET r == JsonValue(s, JsonSkipWs(s, 1)) IN
    IF ~r.ok THEN ParseFail
    ELSE IF JsonSkipWs(s, r.pos) # Len(s) + 1 THEN ParseFail
    ELSE r

(***************************************************************************)
(* JsonParser.run                                                          *)
(***************************************************************************)
\* what a handler gives its caller: a returned value or a raised exception
Return(val) == [raised |-> FALSE, exc |-> "", val |-> val]
Raise(exc)  == [raised |-> TRUE, exc |-> exc, val |-> PyNone]

Fence == <<BQ, BQ, BQ>>
FenceClose == <<NL>> \o Fence

\* re.search(r"```(?:json)?\n(.*?)\n```", s, re.DOTALL) with the opening
\* fence at p: the position of group 1's first character, or 0
CodeBlockOpenAt(s, p) ==
    IF ~StartsWithAt(s, Fence, p) THEN 0
    ELSE IF StartsWithAt(s, Chars("json") \o <<NL>>, p + 3)
            /\ Find(s, FenceClose, p + 8) # 0
         THEN p + 8
    ELSE IF StartsWithAt(s, <<NL>>, p + 3) /\ Find(s, FenceClose, p + 4) # 0
         THEN p + 4
    ELSE 0

\* the leftmost match: [found, group1]
code_block_match(s) ==
    LET opens == {p \in 1..Len(s) : CodeBlockOpenAt(s, p) # 0} IN
    IF opens = {} THEN [found |-> FALSE, group1 |-> <<>>]
    ELSE LET c == CodeBlockOpenAt(s, Min(opens))
         IN  [found |-> TRUE,
              group1 |-> SubSeq(s, c, Find(s, FenceClose, c) - 1)]

\* lines 69-74: the entire string, and {} when that fails too
JsonWholeTextRaises(s) ==
    LET r == json_loads(Strip(s)) IN
    IF r.ok THEN Return(r.val) ELSE Raise("JSONDecodeError")

JsonWholeText(s) ==
    LET r == json_loads(Strip(s)) IN
    IF r.ok THEN Return(r.val) ELSE Return(EmptyDict)

\* lines 60-67: the brace candidates in order, from candidate k on
RECURSIVE JsonCandidates(_, _, _)
JsonCandidates(s, cands, k) ==
    IF k > Len(cands) THEN JsonWholeText(s)
    ELSE LET r == json_loads(cands[k]) IN
         IF r.ok THEN Return(r.val) ELSE JsonCandidates(s, cands, k + 1)

\* lines 51-58 then the rest, with the brace candidates tried first
JsonFromTextBracesFirst(s) ==
    LET cands == find_matching_braces(s)
        oks == {k \in 1..Len(cands) : json_loads(cands[k]).ok}
        m == code_block_match(s)
        r == IF m.found THEN json_loads(Strip(m.group1)) ELSE ParseFail
    IN  IF oks # {} THEN Return(json_loads(cands[Min(oks)]).val)
        ELSE IF r.ok THEN Return(r.val)
        ELSE JsonWholeText(s)

\* lines 51-74
JsonFromText(s) ==
    LET m == code_block_match(s)
        r == IF m.found THEN json_loads(Strip(m.group1)) ELSE ParseFail
    IN  IF r.ok THEN Return(r.val)
        ELSE JsonCandidates(s, find_matching_braces(s), 1)

\* line 48: isinstance(text, dict)
IsPassedThroughNever(text) == FALSE

IsPassedThrough(text) == text.t = "dict"

\* JsonParser.run(text); re.search raises TypeError on anything but a str
JsonParser_run(text) ==
    IF IsPassedThrough(text) THEN Return(text)
    ELSE IF text.t # "str" THEN Raise("TypeError")
    ELSE JsonFromText(text.v)

(***************************************************************************)
(* Specification of JsonParser.run                                         *)
(***************************************************************************)
MaxJsonParts == 3

JsonParts ==
    { Fence \o Chars("json\n"),
      Fence \o <<NL>>,
      FenceClose,
      Chars("{\"a\":1}"),
      Chars("x{\"b\":[2]}"),
      Chars("{x}"),
      Chars("[2]"),
      Chars("[{\"c\":3}]"),
      Chars(" 1\n") }

JsonTexts == {Concat(ps) : ps \in SeqsUpTo(JsonParts, MaxJsonParts)}

\* arguments that are not text
JsonStructured ==
    { EmptyDict,
      PyDict(DictSet(<<>>, PyStr(Chars("a")), PyInt(1))),
      PyList(<<>>),
      PyList(<<PyDict(DictSet(<<>>, PyStr(Chars("a")), PyInt(1)))>>),
      PyInt(1),
      PyNone }

InitJson ==
    /\ input \in {PyStr(s) : s \in JsonTexts} \cup JsonStructured
    /\ output = Return(PyNone)
    /\ pc = "ready"
    /\ NoService

JsonRun ==
    /\ pc = "ready"
    /\ output' = JsonParser_run(input)
    /\ pc' = "JsonParser.run"
    /\ UNCHANGED <<input, remote, sent, locals>>

NextJson == JsonRun

SpecJson == InitJson /\ [][NextJson]_vars

(***************************************************************************)
(* C2 - C5                                                                 *)
(***************************************************************************)
\* the strings run may hand to json.loads, in the order the claim gives:
\* (a) the first code block's content, (b) the brace candidates, (c) the
\* trimmed input
JsonAttempts(s) ==
    LET m == code_block_match(s) IN
    (IF m.found THEN <<Strip(m.group1)>> ELSE <<>>)
        \o find_matching_braces(s) \o <<Strip(s)>>

JsonParsing(s) ==
    {k \in 1..Len(JsonAttempts(s)) : json_loads(JsonAttempts(s)[k]).ok}

\* C2: for a string input, parsed_json is the value of the first attempt
\* that parses, the attempts taken in the order code block, brace
\* candidates in discovery order, whole trimmed input.
C2_StrategyOrder ==
    (pc = "JsonParser.run" /\ input.t = "str" /\ JsonParsing(input.v) # {}) =>
        output =
            Return(json_loads(JsonAttempts(input.v)[Min(JsonParsing(input.v))]).val)

\* a code block that does not parse falls through to a brace candidate
C2_Witness ==
    /\ pc = "JsonParser.run"
    /\ input.t = "str"
    /\ code_block_match(input.v).found
    /\ ~json_loads(Strip(code_block_match(input.v).group1)).ok
    /\ find_matching_braces(input.v) # <<>>
    /\ JsonParsing(input.v) # {}
    /\ Min(JsonParsing(input.v)) = 2
    /\ output.val.t = "dict"
    /\ output.val # EmptyDict

C4_PassThroughAnyNonString ==
    (pc = "JsonParser.run" /\ input.t # "str") => output = Return(input)

\* C4 as amended: a mapping is returned unchanged as parsed_json and run does
\* not raise; a list or any other value that is neither a mapping nor a
\* string is not passed through: run raises TypeError.
C4_PassThroughDictOnly ==
    pc = "JsonParser.run" =>
        /\ (input.t = "dict" => output = Return(input))
        /\ (input.t \notin {"dict", "str"} => output = Raise("TypeError"))

C4_Witness ==
    /\ pc = "JsonParser.run"
    /\ input.t = "dict"
    /\ input # EmptyDict
    /\ output = Return(input)

\* C5: whenever run returns, parsed_json is a mapping, never a list, a
\* string, a number, a boolean or null.
C5_OutputIsMapping ==
    (pc = "JsonParser.run" /\ ~output.raised) => output.val.t = "dict"

(***************************************************************************)
(* ast.literal_eval, for a text that starts with "[": lists, dicts, sets,  *)
(* quoted strings without escapes (adjacent ones concatenated), unsigned   *)
(* decimal integers, True, False and None (the inputs hold no backslash,   *)
(* parenthesis, sign, "#" or string prefix).  A result is [st, val, pos]:  *)
(* st is "ok" or the exception literal_eval raises.  A SyntaxError comes   *)
(* from parsing the whole text, so it wins over a ValueError or TypeError, *)
(* which come from converting the parsed nodes from left to right.         *)
(***************************************************************************)
LitOk(val, pos)  == [st |-> "ok", val |-> val, pos |-> pos]
LitErr(st, pos)  == [st |-> st, val |-> PyNone, pos |-> pos]
LitSyntaxError   == LitErr("SyntaxError", 0)

PySet(S) == [t |-> "set", v |-> S]

\* the earlier of two conversion results' exceptions
FirstErr(a, b) == IF a # "ok" THEN a ELSE b

IsHashable(val) == val.t \notin {"list", "dict", "set"}

IsIdentChar(c) ==
    c \in {"_"} \cup {Chars("abcdefghijklmnopqrstuvwxyz")[k] : k \in 1..26}
            \cup {Chars("ABCDEFGHIJKLMNOPQRSTUVWXYZ")[k] : k \in 1..26}
            \cup {DigitChars[k] : k \in 1..10}

\* the tokenizer skips blanks and, inside brackets, line ends
LitSkipWs(s, i) ==
    LET stops == {j \in i..Len(s) : s[j] \notin {" ", "\t", NL, "\r"}}
    IN  IF stops = {} THEN Len(s) + 1 ELSE Min(stops)

IdentEnd(s, i) ==
    LET stops == {j \in i..Len(s) : ~IsIdentChar(s[j])}
    IN  IF stops = {} THEN Len(s) + 1 ELSE Min(stops)

\* one string literal whose opening quote is at i
LitOneString(s, i) ==
    LET q == s[i] IN
    IF StartsWithAt(s, <<q, q, q>>, i) THEN
        LET j == Find(s, <<q, q, q>>, i + 3) IN
        IF j = 0 THEN LitSyntaxError
        ELSE LitOk(PyStr(SubSeq(s, i + 3, j - 1)), j + 3)
    ELSE
        LET closes == {j \in (i + 1)..Len(s) : s[j] \in {q, NL}} IN
        IF closes = {} \/ s[Min(closes)] = NL THEN LitSyntaxError
        ELSE LitOk(PyStr(SubSeq(s, i + 1, Min(closes) - 1)), Min(closes) + 1)

\* adjacent string literals are one string
RECURSIVE LitStrings(_, _, _)
LitStrings(s, i, acc) ==
    LET r == LitOneString(s, i) IN
    IF r.st # "ok" THEN r
    ELSE LET joined == acc \o r.val.v
             nxt == LitSkipWs(s, r.pos)
         IN  IF CharAt(s, nxt) \in {QUOTE, "'"} THEN LitStrings(s, nxt, joined)
             ELSE LitOk(PyStr(joined), r.pos)

\* a decimal integer: zeros only, or no leading zero; no letter may follow
LitNumber(s, i) ==
    LET e == DigitsEnd(s, i)
        ds == SubSeq(s, i, e - 1)
    IN  IF IsIdentChar(CharAt(s, e)) \/ CharAt(s, e) \in {QUOTE, "'"}
        THEN LitSyntaxError
        ELSE IF ds[1] = "0" /\ \E k \in 1..Len(ds) : ds[k] # "0"
        THEN LitSyntaxError
        ELSE LitOk(PyInt(DigitsToInt(ds)), e)

\* True, False, None; any other name is a malformed node (ValueError)
LitName(s, i) ==
    LET e == IdentEnd(s, i)
        name == SubSeq(s, i, e - 1)
    IN  IF CharAt(s, e) \in {QUOTE, "'"} THEN LitSyntaxError
        ELSE IF name = Chars("True") THEN LitOk(PyBool(TRUE), e)
        ELSE IF name = Chars("False") THEN LitOk(PyBool(FALSE), e)
        ELSE IF name = Chars("None") THEN LitOk(PyNone, e)
        ELSE LitErr("ValueError", e)

RECURSIVE LitValue(_, _)
RECURSIVE LitListItems(_, _, _, _)
RECURSIVE LitDictItems(_, _, _, _)
RECURSIVE LitSetItems(_, _, _, _)

\* the items of a list display; i is the position of an item or of "]"
LitListItems(s, i, acc, st) ==
    IF CharAt(s, i) = "]" /\ acc # <<>> THEN
        (IF st = "ok" THEN LitOk(PyList(acc), i + 1) ELSE LitErr(st, i + 1))
    ELSE LET item(r) ==
                 IF r.st = "SyntaxError" THEN LitSyntaxError
                 ELSE LET items == Append(acc, r.val)
                          st2 == FirstErr(st, r.st)
                          nxt == LitSkipWs(s, r.pos)
                      IN  IF CharAt(s, nxt) = "]" THEN
                              (IF st2 = "ok" THEN LitOk(PyList(items), nxt + 1)
                               ELSE LitErr(st2, nxt + 1))
                          ELSE IF CharAt(s, nxt) # "," THEN LitSyntaxError
                          ELSE LitListItems(s, LitSkipWs(s, nxt + 1), items, st2)
         IN  item(LitValue(s, i))

\* key: value pairs after the first key; i is the position of the ":"
LitDictItems(s, key, i, accst) ==
    IF CharAt(s, i) # ":" THEN LitSyntaxError
    ELSE LET pair(r) ==
                 IF r.st = "SyntaxError" THEN LitSyntaxError
                 ELSE LET st2 == FirstErr(FirstErr(accst.st, FirstErr(key.st, r.st)),
                                          IF IsHashable(key.val) THEN "ok"
                                          ELSE "TypeError")
                          acc2 == IF st2 = "ok"
                                  THEN DictSet(accst.acc, key.val, r.val)
                                  ELSE accst.acc
                          nxt == LitSkipWs(s, r.pos)
                          done(p) == IF st2 = "ok" THEN LitOk(PyDict(acc2), p)
                                     ELSE LitErr(st2, p)
                          more(nk) ==
                              IF nk.st = "SyntaxError" THEN LitSyntaxError
                              ELSE LitDictItems(s, nk, LitSkipWs(s, nk.pos),
                                                [acc |-> acc2, st |-> st2])
                      IN  IF CharAt(s, nxt) = "}" THEN done(nxt + 1)
                          ELSE IF CharAt(s, nxt) # "," THEN LitSyntaxError
                          ELSE LET k == LitSkipWs(s, nxt + 1) IN
                               IF CharAt(s, k) = "}" THEN done(k + 1)
                               ELSE more(LitValue(s, k))
         IN  pair(LitValue(s, LitSkipWs(s, i + 1)))

\* the elements of a set display after one element; i is after that element
LitSetItems(s, elem, i, accst) ==
    LET st2 == FirstErr(FirstErr(accst.st, elem.st),
                        IF IsHashable(elem.val) THEN "ok" ELSE "TypeError")
        acc2 == IF st2 = "ok" THEN accst.acc \cup {elem.val} ELSE accst.acc
        done(p) == IF st2 = "ok" THEN LitOk(PySet(acc2), p) ELSE LitErr(st2, p)
        more(ne) == IF ne.st = "SyntaxError" THEN LitSyntaxError
                    ELSE LitSetItems(s, ne, LitSkipWs(s, ne.pos),
                                     [acc |-> acc2, st |-> st2])
    IN  IF CharAt(s, i) = "}" THEN done(i + 1)
        ELSE IF CharAt(s, i) # "," THEN LitSyntaxError
        ELSE LET k == LitSkipWs(s, i + 1) IN
             IF CharAt(s, k) = "}" THEN done(k + 1)
             ELSE more(LitValue(s, k))

\* one display, string, number or name at i
LitValue(s, i) ==
    LET c == CharAt(s, i) IN
    IF c = "[" THEN
        LET j == LitSkipWs(s, i + 1) IN
        IF CharAt(s, j) = "]" THEN LitOk(PyList(<<>>), j + 1)
        ELSE LitListItems(s, j, <<>>, "ok")
    ELSE IF c = "{" THEN
        LET j == LitSkipWs(s, i + 1) IN
        IF CharAt(s, j) = "}" THEN LitOk(EmptyDict, j + 1)
        ELSE LET display(first) ==
                     IF first.st = "SyntaxError" THEN LitSyntaxError
                     ELSE LET k == LitSkipWs(s, first.pos) IN
                          IF CharAt(s, k) = ":"
                          THEN LitDictItems(s, first, k, [acc |-> <<>>, st |-> "ok"])
                          ELSE LitSetItems(s, first, k, [acc |-> {}, st |-> "ok"])
             IN  display(LitValue(s, j))
    ELSE IF c \in {QUOTE, "'"} THEN LitStrings(s, i, <<>>)
    ELSE IF IsDigit(c) THEN LitNumber(s, i)
    ELSE IF c # "" /\ IsIdentChar(c) THEN LitName(s, i)
    ELSE LitSyntaxError

\* outside brackets only blanks are skipped: a line end ends the expression
LitSkipBlanks(s, i) ==
    LET stops == {j \in i..Len(s) : s[j] \notin {" ", "\t"}}
    IN  IF stops = {} THEN Len(s) + 1 ELSE Min(stops)

PyTuple(xs) == [t |-> "tuple", v |-> xs]

\* "[..], [..]" is a tuple; i is the position of an item or the end
RECURSIVE LitTupleItems(_, _, _, _)
LitTupleItems(s, i, acc, st) ==
    IF i = Len(s) + 1 THEN
        (IF st = "ok" THEN LitOk(PyTuple(acc), i) ELSE LitErr(st, i))
    ELSE LET item(r) ==
                 IF r.st = "SyntaxError" THEN LitSyntaxError
                 ELSE LET items == Append(acc, r.val)
                          st2 == FirstErr(st, r.st)
                          nxt == LitSkipBlanks(s, r.pos)
                      IN  IF nxt = Len(s) + 1 THEN
                              (IF st2 = "ok" THEN LitOk(PyTuple(items), nxt)
                               ELSE LitErr(st2, nxt))
                          ELSE IF CharAt(s, nxt) # "," THEN LitSyntaxError
                          ELSE LitTupleItems(s, LitSkipBlanks(s, nxt + 1), items, st2)
         IN  item(LitValue(s, i))

\* ast.literal_eval(s) for s starting with "[".  Anything but a comma after
\* the first display (a subscript, a stray bracket, a new line) raises
\* SyntaxError or ValueError, which the caller treats alike.
literal_eval(s) ==
    LET expression(r) ==
            IF r.st = "SyntaxError" THEN r
            ELSE LET nxt == LitSkipBlanks(s, r.pos) IN
                 IF nxt = Len(s) + 1 THEN r
                 ELSE IF CharAt(s, nxt) = ","
                 THEN LitTupleItems(s, LitSkipBlanks(s, nxt + 1), <<r.val>>, r.st)
                 ELSE LitSyntaxError
    IN  expression(LitValue(s, 1))

(***************************************************************************)
(* DeepsetChatHistoryParser.run                                            *)
(***************************************************************************)
HistoryMarker  == Chars("Chat History: ")
QuestionMarker == Chars("Current Question: ")
RoleKey    == PyStr(Chars("role"))
ContentKey == PyStr(Chars("content"))

\* ChatMessage.from_user(text), ChatMessage.from_assistant(text)
FromUser(text)      == [role |-> "user", content |-> text]
FromAssistant(text) == [role |-> "assistant", content |-> text]

\* the default case: the whole input as a single user message
\* the default case with no message at all
ChatFallbackEmpty(s) == Return(<<>>)

ChatFallback(s) == Return(<<FromUser(PyStr(s))>>)

\* line 73: range(array_start + 1, len(history_and_query)) as the last
\* character a candidate may end at
LastCandidateEnd(s) == Len(s) - 1

\* lines 73-88: the candidates s[array_start:i] for growing i; only one that
\* ends with "]" (position e) is parsed, and it passes the test of line 81
\* on its own last character.
RECURSIVE ArrayScan(_, _, _)
ArrayScan(s, a, from) ==
    LET ends == {e \in from..LastCandidateEnd(s) : s[e] = "]"} IN
    IF ends = {} THEN [st |-> "else", val |-> PyNone, end |-> 0]
    ELSE LET e == Min(ends)
             try(r) ==
                 IF r.st = "ok" THEN [st |-> "break", val |-> r.val, end |-> e]
                 ELSE IF r.st \in {"SyntaxError", "ValueError"}
                 THEN ArrayScan(s, a, e + 1)
                 ELSE [st |-> "raised", val |-> PyNone, end |-> 0]
         IN  try(literal_eval(SubSeq(s, a, e)))

\* line 96 with the message put first instead of appended
FromAssistantFirst(messages, text) == <<FromAssistant(text)>> \o messages

AppendAssistant(messages, text) == Append(messages, FromAssistant(text))

\* lines 94-98: one message of the history appended to messages, skipped, or
\* an exception (KeyError, TypeError) that line 99 catches
ConvertMessage(msg, messages) ==
    IF msg.t # "dict" THEN [st |-> "except", messages |-> messages]
    ELSE IF RoleKey \notin DOMAIN msg.v THEN [st |-> "except", messages |-> messages]
    ELSE IF msg.v[RoleKey] = PyStr(Chars("user")) THEN
        (IF ContentKey \notin DOMAIN msg.v
         THEN [st |-> "except", messages |-> messages]
         ELSE [st |-> "ok", messages |-> Append(messages, FromUser(msg.v[ContentKey]))])
    ELSE IF msg.v[RoleKey] = PyStr(Chars("assistant")) THEN
        (IF ContentKey \notin DOMAIN msg.v
         THEN [st |-> "except", messages |-> messages]
         ELSE [st |-> "ok",
               messages |-> AppendAssistant(messages, msg.v[ContentKey])])
    ELSE [st |-> "ok", messages |-> messages]

\* lines 90-100: the loop over chat_history from element k on
RECURSIVE ConvertHistory(_, _, _)
ConvertHistory(chat_history, k, messages) ==
    IF k > Len(chat_history) THEN [st |-> "ok", messages |-> messages]
    ELSE LET r == ConvertMessage(chat_history[k], messages) IN
         IF r.st # "ok" THEN r
         ELSE ConvertHistory(chat_history, k + 1, r.messages)

\* lines 103-108: re.search(r"Current Question: (.*?)$", s, re.DOTALL);
\* "$" matches at the end and before a final line end
query_match(s) ==
    LET q == Find(s, QuestionMarker, 1)
        c == q + Len(QuestionMarker)
    IN  IF q = 0 THEN [found |-> FALSE, group1 |-> <<>>]
        ELSE IF c <= Len(s) /\ s[Len(s)] = NL
        THEN [found |-> TRUE, group1 |-> SubSeq(s, c, Len(s) - 1)]
        ELSE [found |-> TRUE, group1 |-> SubSeq(s, c, Len(s))]

\* lines 102-111: the current question appended, and the non-empty list
\* returned
WithQuestion(s, messages) ==
    LET m == query_match(s)
        all == IF m.found
               THEN Append(messages, FromUser(PyStr(Strip(m.group1))))
               ELSE messages
    IN  IF all # <<>> THEN Return(all) ELSE ChatFallback(s)

\* DeepsetChatHistoryParser.run(history_and_query) for a str
DeepsetChatHistoryParser_run(s) ==
    LET history_start == Find(s, HistoryMarker, 1) IN
    IF history_start = 0 THEN ChatFallback(s)
    ELSE LET array_start == Find(s, <<"[">>, history_start + Len(HistoryMarker)) IN
         IF array_start = 0 THEN ChatFallback(s)
         ELSE LET converted(conv) ==
                      IF conv.st # "ok" THEN ChatFallback(s)
                      ELSE WithQuestion(s, conv.messages)
                  scanned(scan) ==
                      IF scan.st # "break" THEN ChatFallback(s)
                      ELSE converted(ConvertHistory(scan.val.v, 1, <<>>))
              IN  scanned(ArrayScan(s, array_start, array_start))

(***************************************************************************)
(* Specification of DeepsetChatHistoryParser.run                           *)
(***************************************************************************)
MaxMsgs == 2

MsgUser      == Chars("{\"role\": \"user\", \"content\": \"hi\"}")
MsgAssistant == Chars("{\"role\": \"assistant\", \"content\": \"yo]\"}")
MsgSystem    == Chars("{\"role\": \"system\", \"content\": \"s\"}")
MsgNoRole    == Chars("{\"content\": \"c\"}")
MsgNoContent == Chars("{\"role\": \"user\"}")
MsgNotDict   == Chars("[\"x\"]")
\* a well-formed message whose content holds the second marker
MsgQuoting   == Chars("{\"role\": \"user\", \"content\": \"Current Question: x\"}")

WellFormedMsgs == {MsgUser, MsgAssistant, MsgQuoting}
ChatMsgs == WellFormedMsgs \cup {MsgSystem, MsgNoRole, MsgNoContent, MsgNotDict}

\* e1, e2, ... joined by ", "
RECURSIVE JoinMsgs(_)
JoinMsgs(es) ==
    IF es = <<>> THEN <<>>
    ELSE IF Len(es) = 1 THEN es[1]
    ELSE es[1] \o Chars(", ") \o JoinMsgs(Tail(es))

ArrayText(es) == <<"[">> \o JoinMsgs(es) \o <<"]">>

ChatHeads == {Chars("Chat History: "), Chars("Past: "), Chars("Chat History: x")}
ChatArrays ==
    {ArrayText(es) : es \in SeqsUpTo(ChatMsgs, MaxMsgs)}
        \cup {<<>>, <<"[">> \o MsgUser}
QuestionTail == Chars(" Current Question: how?")
ChatTails ==
    {<<>>, <<NL>>, QuestionTail, Chars("\nCurrent Question:  a b \n")}

ChatInputs ==
    {h \o a \o t : h \in ChatHeads, a \in ChatArrays, t \in ChatTails}

InitChat ==
    /\ input \in {PyStr(s) : s \in ChatInputs}
    /\ output = Return(<<>>)
    /\ pc = "ready"
    /\ NoService

ChatRun ==
    /\ pc = "ready"
    /\ output' = DeepsetChatHistoryParser_run(input.v)
    /\ pc' = "DeepsetChatHistoryParser.run"
    /\ UNCHANGED <<input, remote, sent, locals>>

NextChat == ChatRun

SpecChat == InitChat /\ [][NextChat]_vars

(***************************************************************************)
(* C6 - C8                                                                 *)
(***************************************************************************)
ChatDone == pc = "DeepsetChatHistoryParser.run"

\* the position of the first "[" after the first marker, or 0
ArrayStartOf(s) ==
    IF Find(s, HistoryMarker, 1) = 0 THEN 0
    ELSE Find(s, <<"[">>, Find(s, HistoryMarker, 1) + Len(HistoryMarker))

\* some prefix of the text from that "[" parses as a literal
SomePrefixParses(s) ==
    \E e \in ArrayStartOf(s)..Len(s) :
        s[e] = "]" /\ literal_eval(SubSeq(s, ArrayStartOf(s), e)).st = "ok"

\* an element without role or content, or with a role that is neither
\* "user" nor "assistant"
IsMalformedMsg(msg) ==
    \/ msg.t # "dict"
    \/ RoleKey \notin DOMAIN msg.v
    \/ ContentKey \notin DOMAIN msg.v
    \/ msg.v[RoleKey] \notin {PyStr(Chars("user")), PyStr(Chars("assistant"))}

\* the history array the call parsed, if it parsed one
ParsedHistory(s) == ArrayScan(s, ArrayStartOf(s), ArrayStartOf(s))

HasMalformedMsg(s) ==
    /\ ArrayStartOf(s) # 0
    /\ ParsedHistory(s).st = "break"
    /\ \E k \in 1..Len(ParsedHistory(s).val.v) :
          IsMalformedMsg(ParsedHistory(s).val.v[k])

\* C6: if any stage fails (no "Chat History: " marker, no "[" after it, no
\* prefix that parses as an array, no "Current Question: " marker, a
\* malformed element) the result is exactly one user turn holding the whole
\* input: never a partial list of turns, never an exception.
C6_FailurePolicy ==
    (ChatDone /\ (\/ ArrayStartOf(input.v) = 0
                  \/ ~SomePrefixParses(input.v)
                  \/ Find(input.v, QuestionMarker, 1) = 0
                  \/ HasMalformedMsg(input.v)))
        => output = ChatFallback(input.v)

\* C7: if an element of the parsed history array lacks "role" or "content"
\* or has a role other than "user" and "assistant", the whole call falls
\* back to the single whole-input user turn: no element is dropped while
\* the others are kept.
C7_MalformedElementAborts ==
    (ChatDone /\ HasMalformedMsg(input.v)) => output = ChatFallback(input.v)

\* what a well-formed message of the inputs says
ExpectedTurn(m) ==
    CASE m = MsgUser      -> FromUser(PyStr(Chars("hi")))
      [] m = MsgAssistant -> FromAssistant(PyStr(Chars("yo]")))
      [] m = MsgQuoting   -> FromUser(PyStr(Chars("Current Question: x")))

\* the text after the first "Current Question: "
AfterQuestionMarker(s) ==
    SubSeq(s, Find(s, QuestionMarker, 1) + Len(QuestionMarker), Len(s))

Document(content, meta, start) ==
    [content |-> content, meta |-> meta, start |-> start]

\* _create_summary_document
create_summary_document(ci_output) ==
    Document(ci_output, [type |-> "ci_summary", title |-> "CI Run Output"], 0)

NoMatch == [ok |-> FALSE, start |-> 0, end |-> 0, groups |-> <<>>]

\* the first line end at or after i, or the position after the text
LineEnd(s, i) ==
    LET nls == {j \in i..Len(s) : s[j] = NL}
    IN  IF nls = {} THEN Len(s) + 1 ELSE Min(nls)

\* "(.+?)\s" with group 3 starting at t: the position of the whitespace
\* character that ends the match, or 0
TestNameEnd(s, t) ==
    IF t > Len(s) \/ s[t] = NL THEN 0
    ELSE LET ws == {w \in (t + 1)..Len(s) : IsSpace(s[w])}
         IN  IF ws = {} THEN 0 ELSE Min(ws)

\* (FAILED|ERROR)
TestResults == {Chars("FAILED"), Chars("ERROR")}

\* r"(FAILED|ERROR) (.+?)::(.+?)\s" matched at position p
TestMatchAt(s, p) ==
    LET kws == {kw \in TestResults : StartsWithAt(s, kw \o <<" ">>, p)}
    IN  IF kws = {} THEN NoMatch
        ELSE LET kw == CHOOSE k \in kws : TRUE
                 f == p + Len(kw) + 1
                 seps == {c \in (f + 1)..(LineEnd(s, f) - 2) :
                             /\ s[c] = ":"
                             /\ s[c + 1] = ":"
                             /\ TestNameEnd(s, c + 2) # 0}
             IN  IF seps = {} THEN NoMatch
                 ELSE [ok |-> TRUE, start |-> p,
                       end |-> TestNameEnd(s, Min(seps) + 2),
                       groups |-> <<kw, SubSeq(s, f, Min(seps) - 1),
                                    SubSeq(s, Min(seps) + 2,
                                           TestNameEnd(s, Min(seps) + 2) - 1)>>]

\* re.finditer(test_failure_pattern, s) from position from on
RECURSIVE TestMatches(_, _)
TestMatches(s, from) ==
    LET starts == {p \in from..Len(s) : TestMatchAt(s, p).ok}
        rest(m) == <<m>> \o TestMatches(s, m.end + 1)
    IN  IF starts = {} THEN <<>> ELSE rest(TestMatchAt(s, Min(starts)))

\* the record of one match with the context left untrimmed
TestFailureUntrimmed(s, m) ==
    LET found == Find(s, <<NL, NL>>, m.start)
        end_pos == IF found = 0 THEN Len(s) + 1 ELSE found
    IN  Document(SubSeq(s, m.start, end_pos - 1),
                 [type |-> "test_failure", file |-> m.groups[2],
                  test |-> m.groups[3], result |-> m.groups[1]],
                 m.start)

\* lines 72-88: the record of one match
TestFailure(s, m) ==
    LET found == Find(s, <<NL, NL>>, m.start)
        end_pos == IF found = 0 THEN Len(s) + 1 ELSE found
    IN  Document(Strip(SubSeq(s, m.start, end_pos - 1)),
                 [type |-> "test_failure", file |-> m.groups[2],
                  test |-> m.groups[3], result |-> m.groups[1]],
                 m.start)

\* _parse_test_failures
parse_test_failures(ci_output) ==
    LET docs(ms) == [k \in 1..Len(ms) |-> TestFailure(ci_output, ms[k])]
    IN  docs(TestMatches(ci_output, 1))

UpperChars == Chars("ABCDEFGHIJKLMNOPQRSTUVWXYZ")
LowerChars == Chars("abcdefghijklmnopqrstuvwxyz")

\* [A-Z]
IsUpper(c) == \E k \in 1..26 : UpperChars[k] = c

\* str.lower for one character
Lower(c) ==
    IF IsUpper(c) THEN LowerChars[CHOOSE k \in 1..26 : UpperChars[k] = c]
    ELSE c

\* the tools' names as the block patterns spell them
Ruff == Chars("ruff")
Mypy == Chars("mypy")

\* re.IGNORECASE: tool (in lower case) at position p in any case
ToolNameAt(s, tool, p) ==
    /\ p + Len(tool) - 1 <= Len(s)
    /\ \A k \in 1..Len(tool) : Lower(s[p + k - 1]) = tool[k]

\* r"(<tool>.+?\n(?:.+?\n)+?)[\n]{2,}" with re.DOTALL matched at p: "." also
\* matches a line end, so the first ".+?\n" ends at the first line end at
\* least one character after the name, and group 1 ends at the first line
\* end, at least two characters later, that two more line ends follow.
\* start..end is group 1, next the position after the match.
BlockAt(s, tool, p) ==
    IF ~ToolNameAt(s, tool, p) THEN NoMatch @@ [next |-> 0]
    ELSE LET a == LineEnd(s, p + Len(tool) + 1)
             ends == {e \in (a + 2)..(Len(s) - 2) :
                         s[e] = NL /\ s[e + 1] = NL /\ s[e + 2] = NL}
             gap(e) == LET after == {j \in (e + 1)..Len(s) : s[j] # NL}
                       IN  IF after = {} THEN Len(s) + 1 ELSE Min(after)
         IN  IF ends = {} THEN NoMatch @@ [next |-> 0]
             ELSE [ok |-> TRUE, start |-> p, end |-> Min(ends),
                   groups |-> <<SubSeq(s, p, Min(ends))>>,
                   next |-> gap(Min(ends))]

\* re.findall(block pattern, s) from position from on
RECURSIVE LintBlocks(_, _, _)
LintBlocks(s, tool, from) ==
    LET starts == {p \in from..Len(s) : BlockAt(s, tool, p).ok}
        rest(m) == <<m>> \o LintBlocks(s, tool, m.next)
    IN  IF starts = {} THEN <<>> ELSE rest(BlockAt(s, tool, Min(starts)))

\* "([0-9]+)" at i: the position after the digits, or 0 without a digit
NumberEnd(b, i) == IF IsDigit(CharAt(b, i)) THEN DigitsEnd(b, i) ELSE 0

\* ruff_pattern r"(.+?):([0-9]+):[0-9]+: ([A-Z][0-9]+) (.+)" with group 1
\* starting at q and its ":" at c
RuffMatchWith(b, q, c) ==
    LET l == NumberEnd(b, c + 1)
        col == NumberEnd(b, l + 1)
        code == NumberEnd(b, col + 3)
    IN  IF /\ CharAt(b, c) = ":"
           /\ l # 0 /\ CharAt(b, l) = ":"
           /\ col # 0 /\ CharAt(b, col) = ":" /\ CharAt(b, col + 1) = " "
           /\ IsUpper(CharAt(b, col + 2))
           /\ code # 0 /\ CharAt(b, code) = " "
           /\ code + 1 < LineEnd(b, q)
        THEN [ok |-> TRUE, start |-> q, end |-> LineEnd(b, q) - 1,
              groups |-> <<SubSeq(b, q, c - 1), SubSeq(b, c + 1, l - 1),
                           SubSeq(b, col + 2, code - 1),
                           SubSeq(b, code + 1, LineEnd(b, q) - 1)>>]
        ELSE NoMatch

MypyTag == Chars(": error: ")

\* mypy_pattern r"(.+?):([0-9]+): error: (.+)" with group 1 starting at q
\* and its ":" at c
MypyMatchWith(b, q, c) ==
    LET l == NumberEnd(b, c + 1)
    IN  IF /\ CharAt(b, c) = ":"
           /\ l # 0 /\ StartsWithAt(b, MypyTag, l)
           /\ l + Len(MypyTag) < LineEnd(b, q)
        THEN [ok |-> TRUE, start |-> q, end |-> LineEnd(b, q) - 1,
              groups |-> <<SubSeq(b, q, c - 1), SubSeq(b, c + 1, l - 1),
                           SubSeq(b, l + Len(MypyTag), LineEnd(b, q) - 1)>>]
        ELSE NoMatch

\* the tool's line pattern matched at q: group 1 is as short as it can be
LineMatchAt(b, tool, q) ==
    LET with(c) == IF tool = Ruff THEN RuffMatchWith(b, q, c)
                   ELSE MypyMatchWith(b, q, c)
        cs == {c \in (q + 1)..(LineEnd(b, q) - 1) : with(c).ok}
    IN  IF cs = {} THEN NoMatch ELSE with(Min(cs))

\* re.finditer(line pattern, block) from position from on
RECURSIVE LineMatches(_, _, _)
LineMatches(b, tool, from) ==
    LET starts == {q \in from..Len(b) : LineMatchAt(b, tool, q).ok}
        rest(m) == <<m>> \o LineMatches(b, tool, m.end + 1)
    IN  IF starts = {} THEN <<>> ELSE rest(LineMatchAt(b, tool, Min(starts)))

\* lines 109-122 and 130-142: the record of one matched line of a block
LintFailure(block, tool, m) ==
    Document(SubSeq(block.groups[1], m.start, m.end),
             IF tool = Ruff
             THEN [type |-> "lint_failure", tool |-> "ruff",
                   file |-> m.groups[1], line |-> DigitsToInt(m.groups[2]),
                   code |-> m.groups[3], message |-> m.groups[4]]
             ELSE [type |-> "lint_failure", tool |-> "mypy",
                   file |-> m.groups[1], line |-> DigitsToInt(m.groups[2]),
                   message |-> m.groups[3]],
             block.start + m.start - 1)

\* lines 107-122 and 128-142: the records of the tool's blocks from block k on
RECURSIVE LintFailures(_, _, _)
LintFailures(blocks, tool, k) ==
    LET docs(ms) == [j \in 1..Len(ms) |-> LintFailure(blocks[k], tool, ms[j])]
    IN  IF k > Len(blocks) THEN <<>>
        ELSE docs(LineMatches(blocks[k].groups[1], tool, 1))
                 \o LintFailures(blocks, tool, k + 1)

\* documents with the two tools' records merged in the order of their
\* position in the text
RECURSIVE MergeByStart(_, _)
MergeByStart(ruff, mypy) ==
    IF ruff = <<>> THEN mypy
    ELSE IF mypy = <<>> THEN ruff
    ELSE IF Head(mypy).start < Head(ruff).start
    THEN <<Head(mypy)>> \o MergeByStart(ruff, Tail(mypy))
    ELSE <<Head(ruff)>> \o MergeByStart(Tail(ruff), mypy)

\* documents as _parse_lint_failures builds it: the ruff loop runs to its
\* end before the mypy loop starts
LintDocuments(ruff, mypy) == ruff \o mypy

\* _parse_lint_failures
parse_lint_failures(ci_output) ==
    LintDocuments(
        LintFailures(LintBlocks(ci_output, Ruff, 1), Ruff, 1),
        LintFailures(LintBlocks(ci_output, Mypy, 1), Mypy, 1))

\* the output documents with the lint records before the test records
RunDocumentsLintFirst(summary, tests, lints) == <<summary>> \o lints \o tests

\* lines 177-183: the summary, extended by the test and the lint records
RunDocuments(summary, tests, lints) == <<summary>> \o tests \o lints

\* str(e) of the TypeError that re.finditer raises for a value that is not
\* a str (the wording of Python 3.11)
TypeErrorMessage(value) ==
    Chars("expected string or bytes-like object, got '")
        \o Chars(value.t) \o <<"'">>

\* an error record that leaves the exception's message out
ErrorDocNoMessage(message) ==
    Document(Chars("Error processing CI output: "),
             [error |-> TRUE, type |-> "error"], 0)

\* lines 191-199
error_doc(message) ==
    Document(Chars("Error processing CI output: ") \o message,
             [error |-> TRUE, type |-> "error"], 0)

\* __init__ with raise_on_failure left to default to False
InitLenient(kwargs) ==
    [raise_on_failure |->
        IF "raise_on_failure" \in DOMAIN kwargs THEN kwargs.raise_on_failure
        ELSE FALSE]

\* CIOutputParser(**kwargs): __init__ with its default raise_on_failure=True;
\* kwargs is the function from the names of the arguments passed to their
\* values
CIOutputParser_init(kwargs) ==
    [raise_on_failure |->
        IF "raise_on_failure" \in DOMAIN kwargs THEN kwargs.raise_on_failure
        ELSE TRUE]

\* CIOutputParser(raise_on_failure).run(ci_output, repo)
CIOutputParser_run(raise_on_failure, ci_output, repo) ==
    IF ci_output.t = "str" THEN
        Return([documents |->
                    RunDocuments(create_summary_document(ci_output.v),
                                 parse_test_failures(ci_output.v),
                                 parse_lint_failures(ci_output.v)),
                repo |-> repo])
    ELSE IF raise_on_failure THEN Raise("TypeError")
    ELSE Return([documents |-> <<error_doc(TypeErrorMessage(ci_output))>>,
                 repo |-> repo])

(***************************************************************************)
(* Specification of CIOutputParser.run: a CI log is up to MaxSections      *)
(* sections.                                                               *)
(***************************************************************************)
MaxSections == 3

SecFailed  == Chars("FAILED a.py::t1\n")
SecError   == Chars("ERROR b.py::t2 - x\n\n")
SecRuff    == Chars("ruff .\nf.py:1:2: E1 m\n\n\n")
SecMypy    == Chars("mypy .\ng.py:3: error: n\n\n\n")
\* a block of two lines that ends with one empty line only
SecRuffTwo == Chars("Ruff:\nh.py:4:5: W2 k\ni.py:6:7: F3 j\n\n")
\* a failure that no whitespace follows
SecTail    == Chars("FAILED c.py::t3")

\* a failure that does not begin its line
SecInline  == Chars("see FAILED d.py::t4 \n")

CISections ==
    {SecFailed, SecError, SecRuff, SecMypy, SecRuffTwo, SecTail, SecInline,
     <<NL>>}

CITexts == {Concat(ss) : ss \in SeqsUpTo(CISections, MaxSections)}

CIRepos == {Chars("o/r")}

\* the parser built with no argument, or with raise_on_failure given
CIKwargs == {<<>>} \cup [raise_on_failure : BOOLEAN]

\* input.raise_on_failure is self.raise_on_failure after construction
InitCI ==
    /\ \E kwargs \in CIKwargs,
          ci_output \in {PyStr(s) : s \in CITexts} \cup {PyNone, PyInt(1)},
          repo \in {PyStr(r) : r \in CIRepos} :
          input = [kwargs |-> kwargs,
                   raise_on_failure |->
                       CIOutputParser_init(kwargs).raise_on_failure,
                   ci_output |-> ci_output,
                   repo |-> repo]
    /\ output = Return(<<>>)
    /\ pc = "ready"
    /\ NoService

CIRun ==
    /\ pc = "ready"
    /\ output' = CIOutputParser_run(input.raise_on_failure, input.ci_output,
                                    input.repo)
    /\ pc' = "CIOutputParser.run"
    /\ UNCHANGED <<input, remote, sent, locals>>

NextCI == CIRun

SpecCI == InitCI /\ [][NextCI]_vars

(***************************************************************************)
(* C9, C10                                                                 *)
(***************************************************************************)
\* run has returned for a ci_output that is a string
CIParsed == pc = "CIOutputParser.run" /\ input.ci_output.t = "str"

IsTest(d) == d.meta.type = "test_failure"
IsLint(d) == d.meta.type = "lint_failure"

\* C9: for every ci_output string the documents are one ci_summary record
\* whose content is the whole input, at index 0 (here 1), then all the
\* test_failure records, then all the lint_failure records: no test_failure
\* record comes after a lint_failure record, and nothing else is emitted.
C9_OutputStructure ==
    CIParsed =>
        /\ ~output.raised
        /\ LET docs == output.val.documents
               tests == parse_test_failures(input.ci_output.v)
               lints == parse_lint_failures(input.ci_output.v)
           IN  /\ Len(docs) = 1 + Len(tests) + Len(lints)
               /\ docs[1].meta.type = "ci_summary"
               /\ docs[1].content = input.ci_output.v
               /\ \A k \in 2..Len(docs) : IsTest(docs[k]) \/ IsLint(docs[k])
               /\ \A i, j \in 2..Len(docs) :
                      (IsLint(docs[i]) /\ IsTest(docs[j])) => j < i
               /\ {docs[k] : k \in {i \in 2..Len(docs) : IsTest(docs[i])}}
                      = {tests[k] : k \in 1..Len(tests)}
               /\ {docs[k] : k \in {i \in 2..Len(docs) : IsLint(docs[i])}}
                      = {lints[k] : k \in 1..Len(lints)}

\* a log with a test failure and a lint failure
C9_Witness ==
    /\ CIParsed
    /\ ~output.raised
    /\ Len(output.val.documents) >= 3
    /\ output.val.documents[1].content = input.ci_output.v
    /\ IsTest(output.val.documents[2])
    /\ IsLint(output.val.documents[Len(output.val.documents)])

\* C10 as claimed: within the test_failure records and within the
\* lint_failure records, the records are in the order in which their matched
\* text appears in the input, whichever tool a lint record belongs to.
C10_OrderOfAppearance ==
    CIParsed =>
        \A i, j \in 2..Len(output.val.documents) :
            LET di == output.val.documents[i]
                dj == output.val.documents[j]
            IN  (i < j /\ di.meta.type = dj.meta.type) => di.start < dj.start

\* C10 as amended: the test_failure records are in the order of their
\* matched text; the lint_failure records are all the ruff records, in the
\* order of their text, and then all the mypy records, in the order of
\* their text, even where a mypy line comes before a ruff line in the input.
C10_OrderWithinTool ==
    CIParsed =>
        \A i, j \in 2..Len(output.val.documents) :
            LET di == output.val.documents[i]
                dj == output.val.documents[j]
            IN  /\ (i < j /\ IsTest(di) /\ IsTest(dj)) => di.start < dj.start
                /\ (i < j /\ IsLint(di) /\ IsLint(dj)) =>
                       \/ di.meta.tool = dj.meta.tool /\ di.start < dj.start
                       \/ di.meta.tool = "ruff" /\ dj.meta.tool = "mypy"

\* a test failure, then a mypy line, then a ruff line in the input: the ruff
\* record is emitted before the mypy record
C10_Witness ==
    /\ CIParsed
    /\ \E k \in 2..Len(output.val.documents) : IsTest(output.val.documents[k])
    /\ \E i, j \in 2..Len(output.val.documents) :
          /\ i < j
          /\ IsLint(output.val.documents[i])
          /\ IsLint(output.val.documents[j])
          /\ output.val.documents[i].meta.tool = "ruff"
          /\ output.val.documents[j].meta.tool = "mypy"
          /\ output.val.documents[j].start < output.val.documents[i].start

(***************************************************************************)
(* C11 - C15                                                               *)
(***************************************************************************)
IsLineStart(s, p) == p = 1 \/ s[p - 1] = NL

\* the line that starts at p begins with FAILED or ERROR, a blank, a path,
\* "::" and a test name
TestLineAt(s, p) ==
    /\ IsLineStart(s, p)
    /\ \E kw \in TestResults :
          /\ StartsWithAt(s, kw \o <<" ">>, p)
          /\ \E c \in (p + Len(kw) + 2)..(LineEnd(s, p) - 3) :
                s[c] = ":" /\ s[c + 1] = ":" /\ ~IsSpace(s[c + 2])

TestRecords == {k \in 2..Len(output.val.documents) :
                    IsTest(output.val.documents[k])}

\* C11: a test_failure record is emitted for exactly the lines that begin
\* with FAILED or ERROR followed by path::testname, one record per line, a
\* line that ends the input included, with result the keyword, file the path
\* and test the test name; a FAILED or ERROR that does not begin a line
\* yields no record.
C11_TestFailureLines ==
    CIParsed =>
        /\ {output.val.documents[k].start : k \in TestRecords}
               = {p \in 1..Len(input.ci_output.v) :
                      TestLineAt(input.ci_output.v, p)}
        /\ \A i, j \in TestRecords :
               output.val.documents[i].start = output.val.documents[j].start
                   => i = j
        /\ \A k \in TestRecords :
               LET d == output.val.documents[k]
               IN  /\ d.meta.result \in TestResults
                   /\ StartsWithAt(input.ci_output.v,
                                   d.meta.result \o <<" ">> \o d.meta.file
                                       \o <<":", ":">> \o d.meta.test,
                                   d.start)

\* the end of the block that begins at p: the line end before the first
\* empty line, or the end of the text
GapAfter(s, p) ==
    LET gaps == {e \in p..(Len(s) - 1) : s[e] = NL /\ s[e + 1] = NL}
    IN  IF gaps = {} THEN Len(s) ELSE Min(gaps)

\* the positions where a line of a block of the tool starts that matches the
\* tool's line pattern: the block begins at the tool's name and runs through
\* the non-blank lines up to the first blank-line gap
BlockLines(s, tool) ==
    {q \in 1..Len(s) :
        /\ \E p \in 1..q :
              /\ ToolNameAt(s, tool, p)
              /\ q <= GapAfter(s, p)
              /\ q = p \/ s[q - 1] = NL
        /\ LineMatchAt(SubSeq(s, q, LineEnd(s, q) - 1), tool, 1).ok}

LintRecords(name) ==
    {k \in 2..Len(output.val.documents) :
        /\ IsLint(output.val.documents[k])
        /\ output.val.documents[k].meta.tool = name}

LintLinesOf(tool, name) ==
    /\ {output.val.documents[k].start : k \in LintRecords(name)}
           = BlockLines(input.ci_output.v, tool)
    /\ \A i, j \in LintRecords(name) :
           output.val.documents[i].start = output.val.documents[j].start
               => i = j
    /\ \A k \in LintRecords(name) :
           LET d == output.val.documents[k]
           IN  d.content = SubSeq(input.ci_output.v, d.start,
                                  LineEnd(input.ci_output.v, d.start) - 1)

\* C12: for each tool a block begins at the tool's name (in any case) and
\* runs through the consecutive non-blank lines up to the first blank-line
\* gap; every line of a block that matches the tool's line pattern yields
\* exactly one lint_failure record whose content is that line, and a line
\* after the gap or outside the tool's blocks yields none.
C12_LintBlocks ==
    CIParsed => LintLinesOf(Ruff, "ruff") /\ LintLinesOf(Mypy, "mypy")

\* run has ended for a ci_output that is not a string: re.finditer raised
CIParseRaised == pc = "CIOutputParser.run" /\ input.ci_output.t # "str"

\* C13: if a parsing step raises and raise_on_failure is False, documents is
\* exactly one record of type "error" (meta error = True) whose content
\* contains the exception's message, with no summary, test_failure or
\* lint_failure record, and repo is passed through; if raise_on_failure is
\* True the exception reaches the caller and nothing is returned.
C13_FailurePolicy ==
    CIParseRaised =>
        IF input.raise_on_failure THEN output = Raise("TypeError")
        ELSE /\ ~output.raised
             /\ output.val.repo = input.repo
             /\ Len(output.val.documents) = 1
             /\ output.val.documents[1].meta = [error |-> TRUE, type |-> "error"]
             /\ Find(output.val.documents[1].content,
                     TypeErrorMessage(input.ci_output), 1) # 0

C13_Witness ==
    /\ CIParseRaised
    /\ ~input.raise_on_failure
    /\ ~output.raised
    /\ output.val.documents[1].meta.type = "error"

\* C14 as claimed: a CIOutputParser built with no arguments returns the
\* single error record when parsing raises, and an exception reaches the
\* caller only if raise_on_failure was passed to the constructor.
C14_DefaultRecovers ==
    CIParseRaised =>
        /\ input.kwargs = <<>> =>
               ~output.raised /\ output.val.documents[1].meta.type = "error"
        /\ output.raised => "raise_on_failure" \in DOMAIN input.kwargs

\* C14 as amended: a CIOutputParser built with no arguments, or with
\* raise_on_failure=True, lets the exception of a parsing step reach the
\* caller; the single error record is returned only by a parser that was
\* built with raise_on_failure=False.
C14_DefaultPropagates ==
    CIParseRaised =>
        /\ input.kwargs = <<>> => output = Raise("TypeError")
        /\ ~output.raised <=>
               /\ "raise_on_failure" \in DOMAIN input.kwargs
               /\ ~input.kwargs.raise_on_failure
        /\ ~output.raised => output.val.documents[1].meta.type = "error"

C14_Witness ==
    /\ CIParseRaised
    /\ input.kwargs = <<>>
    /\ output = Raise("TypeError")

\* the text of s at p that is as long as content
TextAt(s, p, content) == SubSeq(s, p, p + Len(content) - 1)

\* the text from p up to the next empty line, or to the end of s
SpanToGap(s, p) ==
    SubSeq(s, p, IF Find(s, <<NL, NL>>, p) = 0 THEN Len(s)
                 ELSE Find(s, <<NL, NL>>, p) - 1)

\* C15: in every successful run each record's content is a contiguous piece
\* of the input, not reformatted: the summary's content is the whole input,
\* a test_failure's content is the text from the start of its match up to
\* the next double line end (or the end of the text) with the whitespace
\* around it trimmed, and a lint_failure's content is the matched line.
C15_ContentIsSubstring ==
    CIParsed =>
        /\ output.val.documents[1].content = input.ci_output.v
        /\ \A k \in 2..Len(output.val.documents) :
               LET d == output.val.documents[k]
                   s == input.ci_output.v
               IN  /\ d.content # <<>>
                   /\ d.content = TextAt(s, d.start, d.content)
                   /\ IsTest(d) => d.content = Strip(SpanToGap(s, d.start))
                   /\ IsLint(d) =>
                          /\ \A i \in 1..Len(d.content) : d.content[i] # NL
                          /\ CharAt(s, d.start + Len(d.content)) \in {NL, ""}

\* a test_failure whose text was trimmed, and a lint_failure
C15_Witness ==
    /\ CIParsed
    /\ \E k \in 2..Len(output.val.documents) :
          /\ IsTest(output.val.documents[k])
          /\ output.val.documents[k].content
                 # SpanToGap(input.ci_output.v, output.val.documents[k].start)
          /\ output.val.documents[k].content
                 = TextAt(input.ci_output.v, output.val.documents[k].start,
                          output.val.documents[k].content)
    /\ \E k \in 2..Len(output.val.documents) :
          /\ IsLint(output.val.documents[k])
          /\ output.val.documents[k].content
                 = TextAt(input.ci_output.v, output.val.documents[k].start,
                          output.val.documents[k].content)

(***************************************************************************)
(* RegexParser                                                             *)
(*                                                                         *)
(* regex_pattern is a sequence of atoms [cls, q, cap]: cls is a character  *)
(* or "." (any character but a line end), q is the greedy quantifier "1"   *)
(* (exactly one), "?", "*" or "+", and cap says whether the atom is        *)
(* group 1: "" if it is not, "in" if the group holds the quantified atom,  *)
(* "out" if the quantifier applies to the group.  A pattern has at most    *)
(* one group, and its first atom is mandatory, so that no match is empty.  *)
(***************************************************************************)
Atom(cls, q, cap) == [cls |-> cls, q |-> q, cap |-> cap]

Max(S) == CHOOSE x \in S : \A y \in S : y <= x

\* the character c is in the class
ClassHas(cls, c) == IF cls = "." THEN c # NL ELSE c = cls

\* the most repetitions of the atom that the text at i allows
RunLen(s, i, a) ==
    LET most == IF a.q \in {"1", "?"} THEN Min({1, Len(s) - i + 1})
                ELSE Len(s) - i + 1
    IN  Max({n \in 0..most : \A j \in i..(i + n - 1) : ClassHas(a.cls, s[j])})

\* re.compile(regex_pattern).groups >= 1
HasGroup(atoms) == \E k \in 1..Len(atoms) : atoms[k].cap # ""

NoRegexMatch == [ok |-> FALSE, start |-> 0, end |-> 0, group1 |-> PyNone]

\* the atoms from the k-th on matched at i, each atom taking as many
\* characters as lets the rest match; end is the position after the match
\* and group1 what group 1 matched (None for a group that took no part)
RECURSIVE MatchFrom(_, _, _, _)
MatchFrom(atoms, k, s, i) ==
    IF k > Len(atoms)
    THEN [ok |-> TRUE, start |-> i, end |-> i, group1 |-> PyNone]
    ELSE LET a == atoms[k]
             ns == {n \in (IF a.q \in {"1", "+"} THEN 1 ELSE 0)..RunLen(s, i, a) :
                       MatchFrom(atoms, k + 1, s, i + n).ok}
             with(n, rest) ==
                 [ok |-> TRUE, start |-> i, end |-> rest.end,
                  group1 |->
                      IF a.cap = "in" THEN PyStr(SubSeq(s, i, i + n - 1))
                      ELSE IF a.cap = "out" /\ n > 0 THEN PyStr(<<s[i + n - 1]>>)
                      ELSE rest.group1]
             longest(n) == with(n, MatchFrom(atoms, k + 1, s, i + n))
         IN  IF ns = {} THEN NoRegexMatch ELSE longest(Max(ns))

\* re.search(regex_pattern, s): the leftmost match
re_search(atoms, s, from) ==
    LET starts == {p \in from..(Len(s) + 1) : MatchFrom(atoms, 1, s, p).ok}
    IN  IF starts = {} THEN NoRegexMatch
        ELSE MatchFrom(atoms, 1, s, Min(starts))

\* re.finditer(regex_pattern, s) from position from on
RECURSIVE re_finditer(_, _, _)
re_finditer(atoms, s, from) ==
    LET rest(m) == IF m.ok THEN <<m>> \o re_finditer(atoms, s, m.end)
                   ELSE <<>>
    IN  rest(re_search(atoms, s, from))

\* lines 208-212 and 218-221: group 1 if the pattern has a group, else the
\* whole match
GroupOrMatch(atoms, s, m) ==
    IF HasGroup(atoms) THEN m.group1 ELSE PyStr(SubSeq(s, m.start, m.end - 1))

\* _extract_from_text
extract_from_text(self, text) ==
    LET first(m) == IF ~m.ok THEN PyStr(<<>>)
                    ELSE GroupOrMatch(self.regex_pattern, text, m)
        all(ms) == PyList([k \in 1..Len(ms) |->
                              GroupOrMatch(self.regex_pattern, text, ms[k])])
    IN  IF ~self.return_all_matches
        THEN first(re_search(self.regex_pattern, text, 1))
        ELSE all(re_finditer(self.regex_pattern, text, 1))

\* the truth value of a Python value
Truthy(value) ==
    IF value.t \in {"str", "list"} THEN value.v # <<>>
    ELSE IF value.t = "NoneType" THEN FALSE
    ELSE TRUE

\* ChatMessage; text is a str or None
ChatMessage(role, text) ==
    [t |-> "ChatMessage", v |-> [role |-> role, text |-> text]]

CapturedText(value)  == PyDict(DictSet(<<>>, PyStr(Chars("captured_text")), value))
CapturedTexts(value) == PyDict(DictSet(<<>>, PyStr(Chars("captured_texts")), value))

\* lines 105-112 and 177-184: the result for what _extract_from_text gave
ResultOf(self, result) ==
    IF ~Truthy(result) /\ self.return_empty_on_no_match THEN Return(EmptyDict)
    ELSE IF self.return_all_matches THEN Return(CapturedTexts(result))
    ELSE Return(CapturedText(result))

\* lines 116-120 and 169-173: the result without a text to search
NoTextResult(self) ==
    IF self.return_empty_on_no_match THEN Return(EmptyDict)
    ELSE IF self.return_all_matches THEN Return(CapturedTexts(PyList(<<>>)))
    ELSE Return(CapturedText(PyStr(<<>>)))

\* the loop with each message's matches put before the earlier ones
RECURSIVE CollectAllReversed(_, _, _, _)
CollectAllReversed(self, messages, k, all_matches) ==
    IF k > Len(messages) THEN
        (IF all_matches = <<>> /\ self.return_empty_on_no_match
         THEN Return(EmptyDict)
         ELSE Return(CapturedTexts(PyList(all_matches))))
    ELSE IF messages[k].t # "ChatMessage" THEN Raise("ValueError")
    ELSE IF messages[k].v.text = PyNone
    THEN CollectAllReversed(self, messages, k + 1, all_matches)
    ELSE CollectAllReversed(self, messages, k + 1,
             extract_from_text(self, messages[k].v.text.v).v \o all_matches)

\* lines 126-140: the loop over the messages from the k-th on
RECURSIVE CollectAll(_, _, _, _)
CollectAll(self, messages, k, all_matches) ==
    IF k > Len(messages) THEN
        (IF all_matches = <<>> /\ self.return_empty_on_no_match
         THEN Return(EmptyDict)
         ELSE Return(CapturedTexts(PyList(all_matches))))
    ELSE IF messages[k].t # "ChatMessage" THEN Raise("ValueError")
    ELSE IF messages[k].v.text = PyNone
    THEN CollectAll(self, messages, k + 1, all_matches)
    ELSE CollectAll(self, messages, k + 1,
                    all_matches \o extract_from_text(self, messages[k].v.text.v).v)

\* the capture of the last message that has one
LastCapture(self, messages, k) ==
    LET hits == {j \in k..Len(messages) :
                    /\ messages[j].t = "ChatMessage"
                    /\ messages[j].v.text # PyNone
                    /\ Truthy(extract_from_text(self, messages[j].v.text.v))}
    IN  IF \E j \in k..Len(messages) : messages[j].t # "ChatMessage"
        THEN Raise("ValueError")
        ELSE IF hits = {}
        THEN (IF self.return_empty_on_no_match THEN Return(EmptyDict)
              ELSE Return(CapturedText(PyStr(<<>>))))
        ELSE Return(CapturedText(
                 extract_from_text(self, messages[Max(hits)].v.text.v)))

\* lines 142-158: the loop over the messages from the k-th on
RECURSIVE FirstCapture(_, _, _)
FirstCapture(self, messages, k) ==
    LET found(captured) == IF Truthy(captured) THEN Return(CapturedText(captured))
                           ELSE FirstCapture(self, messages, k + 1)
    IN  IF k > Len(messages) THEN
            (IF self.return_empty_on_no_match THEN Return(EmptyDict)
             ELSE Return(CapturedText(PyStr(<<>>))))
        ELSE IF messages[k].t # "ChatMessage" THEN Raise("ValueError")
        ELSE IF messages[k].v.text = PyNone
        THEN FirstCapture(self, messages, k + 1)
        ELSE found(extract_from_text(self, messages[k].v.text.v))

\* the first message instead of the last
FirstOnly(self, messages) ==
    LET first_message == messages[1]
    IN  IF first_message.t # "ChatMessage" THEN Raise("ValueError")
        ELSE IF first_message.v.text = PyNone THEN NoTextResult(self)
        ELSE ResultOf(self, extract_from_text(self, first_message.v.text.v))

\* lines 161-184: only the last message
LastOnly(self, messages) ==
    LET last_message == messages[Len(messages)]
    IN  IF last_message.t # "ChatMessage" THEN Raise("ValueError")
        ELSE IF last_message.v.text = PyNone THEN NoTextResult(self)
        ELSE ResultOf(self, extract_from_text(self, last_message.v.text.v))

\* RegexParser.run(text_or_messages) for a str, a list or None
RegexParser_run(self, text_or_messages) ==
    IF text_or_messages.t = "str"
    THEN ResultOf(self, extract_from_text(self, text_or_messages.v))
    ELSE IF ~Truthy(text_or_messages) THEN NoTextResult(self)
    ELSE IF self.consider_all_messages THEN
        (IF self.return_all_matches
         THEN CollectAll(self, text_or_messages.v, 1, <<>>)
         ELSE FirstCapture(self, text_or_messages.v, 1))
    ELSE LastOnly(self, text_or_messages.v)

(***************************************************************************)
(* Specification of RegexParser.run: the input is a text or a list of up   *)
(* to MaxTurns elements.                                                   *)
(***************************************************************************)
MaxTurns == 3

\* a then group b-star, a then optional group b, a then group dot-plus then c,
\* and the groupless a then b-plus
RegexPatterns ==
    {<<Atom("a", "1", ""), Atom("b", "*", "in")>>,
     <<Atom("a", "1", ""), Atom("b", "?", "out")>>,
     <<Atom("a", "1", ""), Atom(".", "+", "in"), Atom("c", "1", "")>>,
     <<Atom("a", "1", ""), Atom("b", "+", "")>>}

RegexTexts == {Chars("xb"), Chars("a"), Chars("abbc"), Chars("abcabbc")}

RegexTurns ==
    {ChatMessage("user", PyStr(s)) : s \in RegexTexts}
        \cup {ChatMessage("assistant", PyNone), PyStr(Chars("ab"))}

RegexInputs ==
    {PyStr(s) : s \in RegexTexts \cup {<<>>}}
        \cup {PyList(ms) : ms \in SeqsUpTo(RegexTurns, MaxTurns)}

InitRegex ==
    /\ input \in [self : [regex_pattern : RegexPatterns,
                         consider_all_messages : BOOLEAN,
                         return_empty_on_no_match : BOOLEAN,
                         return_all_matches : BOOLEAN],
                  text_or_messages : RegexInputs]
    /\ output = Return(<<>>)
    /\ pc = "ready"
    /\ NoService

RegexRun ==
    /\ pc = "ready"
    /\ output' = RegexParser_run(input.self, input.text_or_messages)
    /\ pc' = "RegexParser.run"
    /\ UNCHANGED <<input, remote, sent, locals>>

NextRegex == RegexRun

SpecRegex == InitRegex /\ [][NextRegex]_vars

(***************************************************************************)
(* Claims about RegexParser.run                                            *)
(***************************************************************************)
RegexRan == pc = "RegexParser.run"

\* the captures of all the matches of the pattern in the text, in text order
AllCaptures(self, s) ==
    LET ms == re_finditer(self.regex_pattern, s, 1)
    IN  [k \in 1..Len(ms) |-> GroupOrMatch(self.regex_pattern, s, ms[k])]

\* the result for a text the pattern matches, and for one it does not match
MatchResult(self, s) ==
    IF self.return_all_matches
    THEN Return(CapturedTexts(PyList(AllCaptures(self, s))))
    ELSE Return(CapturedText(
             GroupOrMatch(self.regex_pattern, s, re_search(self.regex_pattern, s, 1))))

NoMatchResult(self) ==
    IF self.return_empty_on_no_match THEN Return(EmptyDict)
    ELSE IF self.return_all_matches THEN Return(CapturedTexts(PyList(<<>>)))
    ELSE Return(CapturedText(PyStr(<<>>)))

\* C16: on a string input, a pattern that matches gives captured_text with
\* group 1 of the first match (the whole match for a groupless pattern) or
\* captured_texts with the captures of all the matches in text order; a
\* pattern that does not match gives {} if return_empty_on_no_match is set
\* and else the typed empty value; so {} is returned only without a match.
C16_StringResult ==
    (RegexRan /\ input.text_or_messages.t = "str") =>
        LET self == input.self
            s == input.text_or_messages.v
        IN  IF re_search(self.regex_pattern, s, 1).ok
            THEN output = MatchResult(self, s)
            ELSE output = NoMatchResult(self)

\* the input is a list of turns and nothing else
TurnsOnly ==
    /\ input.text_or_messages.t = "list"
    /\ \A k \in 1..Len(input.text_or_messages.v) :
           input.text_or_messages.v[k].t = "ChatMessage"

\* the turns of which the parser captures a non-empty text
Hits(self, messages) ==
    {k \in 1..Len(messages) :
        /\ messages[k].v.text # PyNone
        /\ Truthy(extract_from_text(self, messages[k].v.text.v))}

\* C17: with consider_all_messages and without return_all_matches, the
\* result for a list of turns is the capture of the first turn that has a
\* non-empty one, the turns after it have no influence on it, and without
\* such a turn it is {} or the empty captured_text, as
\* return_empty_on_no_match says.
C17_FirstHit ==
    (/\ RegexRan /\ TurnsOnly
     /\ input.self.consider_all_messages /\ ~input.self.return_all_matches) =>
        LET self == input.self
            messages == input.text_or_messages.v
            hits == Hits(self, messages)
        IN  IF hits = {}
            THEN output = NoMatchResult(self)
            ELSE /\ output = Return(CapturedText(
                        extract_from_text(self, messages[Min(hits)].v.text.v)))
                 /\ output = RegexParser_run(
                        self, PyList(SubSeq(messages, 1, Min(hits))))

\* turns without a capture, then a turn with one, then a turn with another
C17_Witness ==
    /\ RegexRan /\ TurnsOnly
    /\ input.self.consider_all_messages /\ ~input.self.return_all_matches
    /\ LET self == input.self
           messages == input.text_or_messages.v
           hits == Hits(self, messages)
       IN  /\ Cardinality(hits) >= 2
           /\ Min(hits) > 1
           /\ \E k \in hits :
                  extract_from_text(self, messages[k].v.text.v)
                      # extract_from_text(self, messages[Min(hits)].v.text.v)
           /\ output = Return(CapturedText(
                  extract_from_text(self, messages[Min(hits)].v.text.v)))

\* the number of matches of the pattern in the text of a turn
MatchCount(self, message) ==
    IF message.v.text = PyNone THEN 0
    ELSE Len(re_finditer(self.regex_pattern, message.v.text.v, 1))

\* the number of matches in the first k turns
RECURSIVE MatchCountUpTo(_, _, _)
MatchCountUpTo(self, messages, k) ==
    IF k = 0 THEN 0
    ELSE MatchCountUpTo(self, messages, k - 1) + MatchCount(self, messages[k])

\* C18: with consider_all_messages and return_all_matches, captured_texts for
\* a list of turns holds, turn after turn, the captures of the turn's matches
\* in text order (a turn without text gives none), so its length is the sum of
\* the turns' match counts; when there is no capture at all the result is {}
\* or the empty captured_texts, as return_empty_on_no_match says.
C18_Concatenation ==
    (/\ RegexRan /\ TurnsOnly
     /\ input.self.consider_all_messages /\ input.self.return_all_matches) =>
        LET self == input.self
            messages == input.text_or_messages.v
            total == MatchCountUpTo(self, messages, Len(messages))
        IN  IF total = 0
            THEN output = NoMatchResult(self)
            ELSE /\ ~output.raised
                 /\ DOMAIN output.val.v = {PyStr(Chars("captured_texts"))}
                 /\ LET texts == output.val.v[PyStr(Chars("captured_texts"))]
                    IN  /\ texts.t = "list"
                        /\ Len(texts.v) = total
                        /\ \A k \in 1..Len(messages) :
                               \A n \in 1..MatchCount(self, messages[k]) :
                                   texts.v[MatchCountUpTo(self, messages, k - 1) + n]
                                       = AllCaptures(self, messages[k].v.text.v)[n]

\* two turns with matches whose captures differ, and a turn without text
C18_Witness ==
    /\ RegexRan /\ TurnsOnly
    /\ input.self.consider_all_messages /\ input.self.return_all_matches
    /\ LET self == input.self
           messages == input.text_or_messages.v
       IN  /\ Len(messages) = 3
           /\ messages[2].v.text = PyNone
           /\ MatchCount(self, messages[1]) = 2
           /\ MatchCount(self, messages[3]) = 1
           /\ AllCaptures(self, messages[1].v.text.v)[1]
                  # AllCaptures(self, messages[3].v.text.v)[1]
           /\ ~output.raised
           /\ Len(output.val.v[PyStr(Chars("captured_texts"))].v) = 3

\* C19: without consider_all_messages the result for a non-empty list of
\* turns is the result of the same parser for the text of the last turn given
\* as a string (the no-match result if that turn has no text), and it is the
\* result for the last turn alone: the turns before it have no influence.
C19_LastTurnOnly ==
    (/\ RegexRan /\ TurnsOnly
     /\ input.text_or_messages.v # <<>>
     /\ ~input.self.consider_all_messages) =>
        LET self == input.self
            messages == input.text_or_messages.v
            last == messages[Len(messages)]
        IN  /\ output = (IF last.v.text = PyNone THEN NoMatchResult(self)
                         ELSE RegexParser_run(self, last.v.text))
            /\ output = RegexParser_run(self, PyList(<<last>>))

\* the first turn as a string gives another result than the last one
C19_Witness ==
    /\ RegexRan /\ TurnsOnly
    /\ ~input.self.consider_all_messages
    /\ Len(input.text_or_messages.v) >= 2
    /\ LET self == input.self
           messages == input.text_or_messages.v
           last == messages[Len(messages)]
       IN  /\ last.v.text # PyNone
           /\ messages[1].v.text # PyNone
           /\ RegexParser_run(self, messages[1].v.text)
                  # RegexParser_run(self, last.v.text)
           /\ re_search(self.regex_pattern, last.v.text.v, 1).ok
           /\ output = RegexParser_run(self, last.v.text)

\* C20: whatever the flags, a list that holds an element that is not a
\* ChatMessage, at whatever position, makes run raise ValueError.
C20_NonTurnRaises ==
    (/\ RegexRan
     /\ input.text_or_messages.t = "list"
     /\ \E k \in 1..Len(input.text_or_messages.v) :
            input.text_or_messages.v[k].t # "ChatMessage") =>
        output = Raise("ValueError")

(***************************************************************************)
(* Claims about find_matching_braces on unbalanced texts                   *)
(***************************************************************************)
BraceRan == pc = "find_matching_braces"

\* the number of braces open after the first n characters, a "}" that closes
\* nothing left out
RECURSIVE OpenDepth(_, _)
OpenDepth(text, n) ==
    IF n = 0 THEN 0
    ELSE LET d == OpenDepth(text, n - 1)
         IN  IF text[n] = "{" THEN d + 1
             ELSE IF text[n] = "}" /\ d > 0 THEN d - 1
             ELSE d

\* the "{" at position s is never closed
Unmatched(text, s) ==
    /\ text[s] = "{"
    /\ \A j \in s..Len(text) : OpenDepth(text, j) > OpenDepth(text, s - 1)

\* the spans from a "{" met with nothing open to the "}" that closes it
ClosedSpans(text) ==
    {<<s, e>> \in (1..Len(text)) \X (1..Len(text)) :
        /\ s < e
        /\ text[s] = "{"
        /\ OpenDepth(text, s - 1) = 0
        /\ OpenDepth(text, e) = 0
        /\ \A j \in s..(e - 1) : OpenDepth(text, j) > 0}

\* the strings of a set of spans, from left to right
RECURSIVE SpanStrings(_, _)
SpanStrings(text, spans) ==
    IF spans = {} THEN <<>>
    ELSE LET first == CHOOSE g \in spans : \A h \in spans : g[1] <= h[1]
         IN  <<SubSeq(text, first[1], first[2])>>
                 \o SpanStrings(text, spans \ {first})

\* C26: a "{" that no "}" closes gives no string: the strings returned are
\* those of the closed spans, none of which begins at an unmatched "{", and
\* each of them has as many "{" as "}" while none of its proper prefixes has.
C26_UnmatchedYieldsNoSpan ==
    BraceRan =>
        /\ output = SpanStrings(input, ClosedSpans(input))
        /\ \A g \in ClosedSpans(input) : ~Unmatched(input, g[1])
        /\ \A k \in 1..Len(output) :
               /\ Head(output[k]) = "{"
               /\ BraceDepth(output[k], Len(output[k])) = 0
               /\ \A n \in 1..(Len(output[k]) - 1) : BraceDepth(output[k], n) > 0

\* a text with a closed group and an unmatched "{" inside and outside a group
C26_Witness ==
    /\ BraceRan
    /\ \E s \in 1..Len(input) : Unmatched(input, s) /\ OpenDepth(input, s - 1) > 0
    /\ \E s \in 1..Len(input) : Unmatched(input, s) /\ OpenDepth(input, s - 1) = 0
    /\ Len(output) = 1
    /\ Len(output[1]) > 2

\* the text without every "}" that is met with nothing open
RECURSIVE WithoutStray(_, _)
WithoutStray(text, n) ==
    IF n = 0 THEN <<>>
    ELSE IF text[n] = "}" /\ OpenDepth(text, n - 1) = 0
    THEN WithoutStray(text, n - 1)
    ELSE Append(WithoutStray(text, n - 1), text[n])

\* the "{" met with nothing open that are never closed (at most one)
OpenEnds(text) ==
    {u \in 1..Len(text) : Unmatched(text, u) /\ OpenDepth(text, u - 1) = 0}

\* C28: after a "{" that is met with nothing open and is never closed no
\* span is returned, whatever balanced groups follow it: the result is that
\* of the text before that brace; a "}" met with nothing open is ignored:
\* the count of open braces never goes below zero and the result is that of
\* the text without such "}".
C28_SuppressionAfterUnmatched ==
    BraceRan =>
        /\ \A u \in OpenEnds(input) :
               /\ \A g \in ClosedSpans(input) : g[2] < u
               /\ output = find_matching_braces(SubSeq(input, 1, u - 1))
        /\ output = SpanStrings(input, ClosedSpans(input))
        /\ \A n \in 0..Len(input) : OpenDepth(input, n) >= 0
        /\ output = find_matching_braces(WithoutStray(input, Len(input)))

\* a "}" that closes nothing, then a "{" that is never closed with a balanced
\* group after it
C28_Witness ==
    /\ BraceRan
    /\ \E u \in OpenEnds(input) :
           /\ \E s \in (u + 1)..Len(input) :
                  input[s] = "{" /\ \E e \in s..Len(input) :
                      BracesBalanced(SubSeq(input, s, e))
           /\ \E n \in 1..(u - 1) : input[n] = "}" /\ OpenDepth(input, n - 1) = 0
    /\ output = <<>>

(***************************************************************************)
(* Further claims about DeepsetChatHistoryParser.run                       *)
(***************************************************************************)
\* the "]" after the first "[" at which the text from that "[" parses
ParsingEnds(s) ==
    {e \in ArrayStartOf(s)..Len(s) :
        s[e] = "]" /\ literal_eval(SubSeq(s, ArrayStartOf(s), e)).st = "ok"}

\* the result when the history array is the text from the first "[" to e
ResultForArray(s, e) ==
    LET converted(conv) == IF conv.st # "ok" THEN ChatFallback(s)
                           ELSE WithQuestion(s, conv.messages)
        parsed(r) == converted(ConvertHistory(r.val.v, 1, <<>>))
    IN  parsed(literal_eval(SubSeq(s, ArrayStartOf(s), e)))

\* C25: the history array is the shortest text from the first "[" after
\* "Chat History: " to a "]" that parses as a literal array: every "]" after
\* that "[" is a candidate end, the "]" that is the last character of the
\* input included, and the turns come from the first candidate that parses.
C25_ArrayLocation ==
    (ChatDone /\ ArrayStartOf(input.v) # 0 /\ ParsingEnds(input.v) # {}) =>
        output = ResultForArray(input.v, Min(ParsingEnds(input.v)))

\* the history array was found and none of its elements gave a turn
NoHistoryTurn(s) ==
    LET none(conv) == conv.st = "ok" /\ conv.messages = <<>>
        parsed(scan) == /\ scan.st = "break"
                        /\ none(ConvertHistory(scan.val.v, 1, <<>>))
    IN  ArrayStartOf(s) # 0 /\ parsed(ParsedHistory(s))

\* C27: for every input text run returns a list of at least one turn and
\* does not raise; when the history gave no turn and there is no current
\* question the result is the whole input as one user turn, not an empty list.
C27_Totality ==
    ChatDone =>
        /\ ~output.raised
        /\ Len(output.val) >= 1
        /\ (NoHistoryTurn(input.v) /\ Find(input.v, QuestionMarker, 1) = 0) =>
               output = ChatFallback(input.v)

\* an empty history array and no question
C27_Witness ==
    /\ ChatDone
    /\ ArrayStartOf(input.v) # 0
    /\ ParsedHistory(input.v).st = "break"
    /\ ParsedHistory(input.v).val.v = <<>>
    /\ Find(input.v, QuestionMarker, 1) = 0
    /\ output = Return(<<FromUser(input)>>)

(***************************************************************************)
(* A further claim about JsonParser.run                                    *)
(***************************************************************************)
\* a JSON object, or a JSON array of objects
IsObjectOrObjects(value) ==
    \/ value.t = "dict"
    \/ /\ value.t = "list"
       /\ \A k \in 1..Len(value.v) : value.v[k].t = "dict"

\* the trimmed text is one JSON document, an object or an array of objects,
\* and the text has no fenced code block
IsPlainJson(text) ==
    /\ text.t = "str"
    /\ ~code_block_match(text.v).found
    /\ json_loads(Strip(text.v)).ok
    /\ IsObjectOrObjects(json_loads(Strip(text.v)).val)

\* C30: for a text that is one valid JSON document, a top-level object or a
\* top-level array of objects, without a fenced code block, parsed_json is
\* the value of the whole text, and so the same on every call.
C30_PlainJson ==
    (pc = "JsonParser.run" /\ IsPlainJson(input)) =>
        output = Return(json_loads(Strip(input.v)).val)

(***************************************************************************)
(* JiraIssueViewer                                                         *)
(*                                                                         *)
(* The Jira service holds one issue and its comments.  A request is one    *)
(* step: it is answered, or requests.get raises ConnectionError, or the    *)
(* answer is an error status and raise_for_status raises HTTPError.        *)
(***************************************************************************)
\* JiraIssueViewer(**kwargs): __init__ with its defaults
JiraIssueViewer_init(kwargs) ==
    [raise_on_failure |->
        IF "raise_on_failure" \in DOMAIN kwargs THEN kwargs.raise_on_failure
        ELSE TRUE,
     retry_attempts |->
        IF "retry_attempts" \in DOMAIN kwargs THEN kwargs.retry_attempts
        ELSE 2,
     jira_base_url |->
        IF "jira_base_url" \in DOMAIN kwargs THEN kwargs.jira_base_url
        ELSE PyNone]

SchemeHttp  == Chars("http://")
SchemeHttps == Chars("https://")
BrowsePath  == Chars("/browse/")

\* the first "/" at or after i, or the position after the text
SlashOrEnd(s, i) ==
    LET slashes == {j \in i..Len(s) : s[j] = "/"}
    IN  IF slashes = {} THEN Len(s) + 1 ELSE Min(slashes)

\* _parse_jira_url: re.match(r"https?://([^/]+)/browse/([^/]+)", url)
parse_jira_url(url) ==
    LET d == IF StartsWithAt(url, SchemeHttps, 1) THEN Len(SchemeHttps) + 1
             ELSE IF StartsWithAt(url, SchemeHttp, 1) THEN Len(SchemeHttp) + 1
             ELSE 0
        b == SlashOrEnd(url, d)
        k == b + Len(BrowsePath)
    IN  IF d = 0 \/ b = d \/ ~StartsWithAt(url, BrowsePath, b)
           \/ SlashOrEnd(url, k) = k
        THEN [ok |-> FALSE, base_url |-> <<>>, issue_key |-> <<>>]
        ELSE [ok |-> TRUE,
              base_url |-> SchemeHttps \o SubSeq(url, d, b - 1),
              issue_key |-> SubSeq(url, k, SlashOrEnd(url, k) - 1)]

\* "\n".join(text_parts)
RECURSIVE JoinLines(_)
JoinLines(parts) ==
    IF parts = <<>> THEN <<>>
    ELSE IF Len(parts) = 1 THEN parts[1]
    ELSE parts[1] \o <<NL>> \o JoinLines(Tail(parts))

\* a text in Atlassian Document Format: the texts of its text nodes in
\* document order
Adf(texts) == [t |-> "dict", v |-> texts]

\* lines 159-161 and 193-195: a str (or None) is kept, a document is
\* flattened by _extract_text_from_jira_content
PlainText(value) ==
    IF value.t = "dict" THEN PyStr(JoinLines(value.v)) ELSE value

\* _create_issue_document; an issue that is not assigned has assignee None,
\* of which line 176 calls get (JiraFetchIssue)
create_issue_document(issue_data, base_url) ==
    [content |-> PlainText(issue_data.fields.description),
     meta |-> [type |-> "issue",
               key |-> issue_data.key,
               title |-> issue_data.fields.summary,
               status |-> issue_data.fields.status.name,
               created_at |-> issue_data.fields.created,
               updated_at |-> issue_data.fields.updated,
               author |-> issue_data.fields.reporter.displayName,
               assignee |-> issue_data.fields.assignee.displayName,
               url |-> base_url \o BrowsePath \o issue_data.key]]

\* _create_comment_document
create_comment_document(comment_data, issue_key, base_url) ==
    [content |-> PlainText(comment_data.body),
     meta |-> [type |-> "comment",
               issue_key |-> issue_key,
               created_at |-> comment_data.created,
               updated_at |-> comment_data.updated,
               author |-> comment_data.author.displayName,
               url |-> base_url \o BrowsePath \o issue_key
                           \o Chars("?focusedCommentId=") \o comment_data.id]]

\* str(e) of the exceptions of the model
ExceptionMessage(exc, url) ==
    CASE exc = "ValueError" -> Chars("Invalid Jira issue URL format: ") \o url
      [] exc = "HTTPError" -> Chars("404 Client Error")
      [] exc = "ConnectionError" -> Chars("Connection refused")
      [] exc = "AttributeError" ->
             Chars("'NoneType' object has no attribute 'get'")

\* lines 264-278: the exception is raised again or becomes the error document
JiraFailure(self, url, exc) ==
    IF self.raise_on_failure THEN Raise(exc)
    ELSE Return([documents |->
            <<[content |-> Chars("Error processing Jira issue ") \o url
                               \o Chars(": ") \o ExceptionMessage(exc, url),
               meta |-> [error |-> TRUE, type |-> "error", url |-> url]]>>])

\* line 249: self.jira_base_url or base_url
BaseUrl(self, base_url) ==
    IF self.jira_base_url.t = "str" /\ self.jira_base_url.v # <<>>
    THEN self.jira_base_url.v ELSE base_url

\* a request of the log
Request(method, url, outcome) ==
    [method |-> method, url |-> url, outcome |-> outcome]

RequestOutcomes == {"ok", "HTTPError", "ConnectionError"}

JiraDone == "JiraIssueViewer.run"

\* lines 246-253: the URL is parsed and the issue is requested
JiraFetchIssue ==
    /\ pc = "ready"
    /\ LET self == input.self
           parsed == parse_jira_url(input.url)
           base_url == BaseUrl(self, parsed.base_url)
           url == base_url \o Chars("/rest/api/3/issue/") \o parsed.issue_key
       IN  IF ~parsed.ok
           THEN /\ output' = JiraFailure(self, input.url, "ValueError")
                /\ pc' = JiraDone
                /\ UNCHANGED <<sent, locals>>
           ELSE \E outcome \in RequestOutcomes :
                /\ sent' = Append(sent, Request("GET", url, outcome))
                /\ IF outcome # "ok"
                   THEN /\ output' = JiraFailure(self, input.url, outcome)
                        /\ pc' = JiraDone
                        /\ UNCHANGED locals
                   ELSE IF remote.issue.fields.assignee = PyNone
                   THEN /\ output' = JiraFailure(self, input.url, "AttributeError")
                        /\ pc' = JiraDone
                        /\ UNCHANGED locals
                   ELSE /\ locals' = [base_url |-> base_url,
                                      issue_key |-> parsed.issue_key,
                                      documents |->
                                          <<create_issue_document(remote.issue,
                                                                  base_url)>>]
                        /\ pc' = "fetch_comments"
                        /\ UNCHANGED output
    /\ UNCHANGED <<input, remote>>

\* lines 256-262: the comments are requested and the documents returned
JiraFetchComments ==
    /\ pc = "fetch_comments"
    /\ \E outcome \in RequestOutcomes :
        /\ sent' = Append(sent,
               Request("GET",
                       locals.base_url \o Chars("/rest/api/3/issue/")
                           \o locals.issue_key \o Chars("/comment"),
                       outcome))
        /\ output' =
              IF outcome # "ok" THEN JiraFailure(input.self, input.url, outcome)
              ELSE Return([documents |->
                      locals.documents \o
                          [k \in 1..Len(remote.comments) |->
                              create_comment_document(remote.comments[k],
                                                      locals.issue_key,
                                                      locals.base_url)]])
    /\ pc' = JiraDone
    /\ UNCHANGED <<input, remote, locals>>

(***************************************************************************)
(* Specification of JiraIssueViewer.run: up to MaxComments comments,       *)
(* retry_attempts up to MaxRetryAttempts.                                  *)
(***************************************************************************)
MaxComments == 2
MaxRetryAttempts == 2

JiraKwargs ==
    {<<>>} \cup [raise_on_failure : BOOLEAN,
                 retry_attempts : 0..MaxRetryAttempts,
                 jira_base_url : {PyNone, PyStr(Chars("https://j.io"))}]

JiraUrls ==
    {Chars("https://d.net/browse/P-1"),
     Chars("http://d.net/browse/P-2/x"),
     Chars("https://d.net/issues/P-1"),
     Chars("https://d.net/browse/")}

JiraDescriptions == {PyStr(Chars("d")), PyNone, Adf(<<Chars("p"), Chars("q")>>)}

JiraIssues ==
    {[key |-> Chars("P-1"),
      fields |-> [description |-> description,
                  summary |-> Chars("s"),
                  status |-> [name |-> Chars("Open")],
                  created |-> Chars("t1"),
                  updated |-> Chars("t2"),
                  reporter |-> [displayName |-> Chars("r")],
                  assignee |-> assignee]] :
        description \in JiraDescriptions,
        assignee \in {[displayName |-> Chars("a")], PyNone}}

JiraComments ==
    {[id |-> Chars("7"), body |-> body, created |-> Chars("t3"),
      updated |-> Chars("t4"), author |-> [displayName |-> Chars("c")]] :
        body \in {PyStr(Chars("b")), Adf(<<Chars("x")>>)}}

InitJira ==
    /\ \E kwargs \in JiraKwargs, url \in JiraUrls :
           input = [kwargs |-> kwargs, self |-> JiraIssueViewer_init(kwargs),
                    url |-> url]
    /\ \E issue \in JiraIssues, comments \in SeqsUpTo(JiraComments, MaxComments) :
           remote = [issue |-> issue, comments |-> comments]
    /\ sent = <<>>
    /\ locals = <<>>
    /\ output = Return(<<>>)
    /\ pc = "ready"

NextJira == JiraFetchIssue \/ JiraFetchComments

SpecJira == InitJira /\ [][NextJira]_vars

\* the requests of the log that failed
FailedRequests == {k \in 1..Len(sent) : sent[k].outcome # "ok"}

\* C24: a request to the Jira API that fails is made again, up to
\* retry_attempts more times (2 by default), before run reports the failure:
\* when run ends with the failure of a request, that request has been made
\* 1 + retry_attempts times.
C24_Retry ==
    (pc = JiraDone /\ FailedRequests # {}) =>
        LET failed == sent[Min(FailedRequests)]
        IN  Cardinality({k \in 1..Len(sent) : sent[k].url = failed.url})
                = 1 + input.self.retry_attempts

(***************************************************************************)
(* GithubFileEditor                                                        *)
(*                                                                         *)
(* The GitHub service holds, for the branch worked on, the file at the     *)
(* payload's path and the branch's commits, newest first; removed is the   *)
(* set of the commits that a ref update has dropped from the branch.  A    *)
(* request is one step, with the outcomes of RequestOutcomes; between the  *)
(* steps of a handler other users push commits to the branch.              *)
(***************************************************************************)
\* the handler of lines 182-185 and its copies with the exception always
\* turned into the error string
RequestFailureNeverRaises(self, exc) ==
    Return(Chars("Error: ") \o ExceptionMessage(exc, <<>>))

\* lines 182-185, 213-216, 232-235, 251-254: except requests.RequestException
RequestFailure(self, exc) ==
    IF self.raise_on_failure THEN Raise(exc)
    ELSE Return(Chars("Error: ") \o ExceptionMessage(exc, <<>>))

\* GithubFileEditor(**kwargs): __init__ with its defaults
GithubFileEditor_init(kwargs) ==
    [default_repo |-> IF "repo" \in DOMAIN kwargs THEN kwargs.repo ELSE PyNone,
     default_branch |->
        IF "branch" \in DOMAIN kwargs THEN kwargs.branch ELSE Chars("main"),
     raise_on_failure |->
        IF "raise_on_failure" \in DOMAIN kwargs THEN kwargs.raise_on_failure
        ELSE TRUE]

\* b64encode(content.encode("utf-8")).decode("utf-8") and b64decode: the
\* encoded text is kept as a value of its own kind
b64encode(text) == [b64 |-> text]
b64decode(data) == data.b64

\* str.count: the occurrences of sub from position from on that do not
\* overlap, counted from the left; the empty string is counted before every
\* character and at the end
RECURSIVE Count(_, _, _)
Count(s, sub, from) ==
    IF sub = <<>> THEN Len(s) - from + 2
    ELSE LET p == Find(s, sub, from)
         IN  IF p = 0 THEN 0 ELSE 1 + Count(s, sub, p + Len(sub))

\* str.replace: every occurrence that str.count counts is replaced
RECURSIVE Replace(_, _, _, _)
Replace(s, old, new, from) ==
    IF old = <<>>
    THEN IF from > Len(s) THEN new
         ELSE new \o <<s[from]>> \o Replace(s, old, new, from + 1)
    ELSE LET p == Find(s, old, from)
         IN  IF p = 0 THEN SubSeq(s, from, Len(s))
             ELSE SubSeq(s, from, p - 1) \o new
                      \o Replace(s, old, new, p + Len(old))

\* line 170
new_content(content, payload) ==
    Replace(content, payload.original, payload.replacement, 1)

ApiRepos == Chars("https://api.github.com/repos/")

ContentsUrl(owner, repo, path) ==
    ApiRepos \o owner \o <<"/">> \o repo \o Chars("/contents/") \o path

CommitsUrl(owner, repo) ==
    ApiRepos \o owner \o <<"/">> \o repo \o Chars("/commits")

RefUrl(owner, repo, branch) ==
    ApiRepos \o owner \o <<"/">> \o repo \o Chars("/git/refs/heads/") \o branch

UserUrl == Chars("https://api.github.com/user")

\* a request of the log with what it carries (params or json)
ApiRequest(method, url, body, outcome) ==
    [method |-> method, url |-> url, body |-> body, outcome |-> outcome]

\* the user of the token, and the others
CurrentUser == "me"
OtherUser == "other"

Commit(sha, author) == [sha |-> sha, author |-> author]

\* the commit that a write through the contents API adds to the branch
OwnCommit == Commit("n1", CurrentUser)

\* the branch after the ref is set to sha with force: the commits from sha on
RECURSIVE ResetTo(_, _)
ResetTo(commits, sha) ==
    IF commits = <<>> \/ Head(commits).sha = sha THEN commits
    ELSE ResetTo(Tail(commits), sha)

\* the sha of HEAD instead
HeadSha(commits) == commits[1]["sha"]

\* line 204: commits[1]["sha"] (0-based)
previous_sha(commits) == commits[2]["sha"]

\* line 153
SameUser(commit_author, current_user) == commit_author = current_user

EditorDone == "GithubFileEditor.run"

\* line 297: the handler's string is returned under "result"; an exception
\* goes on to the caller
RunResult(r) == IF r.raised THEN r ELSE Return([result |-> r.val])

Commands == {"edit", "undo", "create", "delete"}

\* lines 273-295: the repository and the branch are settled and the handler
\* of the command is chosen
EditorRun ==
    /\ pc = "ready"
    /\ LET self == input.self
           repo == IF input.repo = PyNone THEN self.default_repo ELSE input.repo
           working_branch == IF input.branch # PyNone THEN input.branch.v
                             ELSE self.default_branch
           slash == Find(repo.v, <<"/">>, 1)
       IN  IF repo = PyNone
           THEN /\ output' = Return([result |->
                      Chars("Error: No repository specified. Either provide it in initialization or in run() method")])
                /\ pc' = EditorDone
                /\ UNCHANGED locals
           ELSE IF input.command \notin Commands
           THEN /\ output' = Return([result |->
                      Chars("Error: Unknown command '") \o Chars(input.command)
                          \o <<"'">>])
                /\ pc' = EditorDone
                /\ UNCHANGED locals
           ELSE /\ locals' = [owner |-> SubSeq(repo.v, 1, slash - 1),
                              repo |-> SubSeq(repo.v, slash + 1, Len(repo.v)),
                              branch |-> working_branch]
                /\ pc' = input.command
                /\ UNCHANGED output
    /\ UNCHANGED <<input, remote, sent>>

\* the handler ends with the result r
EditorReturns(r) ==
    /\ output' = RunResult(r)
    /\ pc' = EditorDone

\* _get_file_content: the request, and the content and the sha of its answer
GetFileRequest(outcome) ==
    ApiRequest("GET",
               ContentsUrl(locals.owner, locals.repo, input.payload.path),
               [ref |-> locals.branch], outcome)

FetchedFile ==
    [content |-> b64decode(b64encode(remote.file.content)),
     sha |-> remote.file.sha]

\* lines 160-167: the file is fetched and the original string is counted
EditGetFile ==
    /\ pc = "edit"
    /\ \E outcome \in RequestOutcomes :
        /\ sent' = Append(sent, GetFileRequest(outcome))
        /\ IF outcome # "ok"
           THEN EditorReturns(RequestFailure(input.self, outcome))
                    /\ UNCHANGED locals
           ELSE LET occurrences == Count(FetchedFile.content,
                                         input.payload.original, 1)
                IN  IF occurrences = 0
                    THEN EditorReturns(Return(
                             Chars("Error: Original string not found in file")))
                         /\ UNCHANGED locals
                    ELSE IF occurrences > 1
                    THEN EditorReturns(Return(
                             Chars("Error: Original string appears multiple times. Please provide more context")))
                         /\ UNCHANGED locals
                    ELSE /\ locals' = FetchedFile @@ locals
                         /\ pc' = "edit:update"
                         /\ UNCHANGED output
    /\ UNCHANGED <<input, remote>>

\* the service after a write through the contents API: the file and one
\* more commit of the current user on the branch
AfterWrite(file) ==
    [remote EXCEPT !.file = file, !.commits = <<OwnCommit>> \o @]

\* lines 170-180 with _update_file
EditUpdateFile ==
    /\ pc = "edit:update"
    /\ \E outcome \in RequestOutcomes :
        LET body == [message |-> input.payload.message,
                     content |-> b64encode(new_content(locals.content,
                                                       input.payload)),
                     sha |-> locals.sha,
                     branch |-> locals.branch]
        IN  /\ sent' = Append(sent,
                   ApiRequest("PUT",
                       ContentsUrl(locals.owner, locals.repo, input.payload.path),
                       body, outcome))
            /\ IF outcome # "ok"
               THEN /\ EditorReturns(RequestFailure(input.self, outcome))
                    /\ UNCHANGED remote
               ELSE /\ EditorReturns(Return(Chars("Edit successful")))
                    /\ remote' = AfterWrite([content |-> b64decode(body.content),
                                             sha |-> "f2"])
    /\ UNCHANGED <<input, locals>>

\* lines 223-230
CreateFile ==
    /\ pc = "create"
    /\ \E outcome \in RequestOutcomes :
        LET body == [message |-> input.payload.message,
                     content |-> b64encode(input.payload.content),
                     branch |-> locals.branch]
        IN  /\ sent' = Append(sent,
                   ApiRequest("PUT",
                       ContentsUrl(locals.owner, locals.repo, input.payload.path),
                       body, outcome))
            /\ IF outcome # "ok"
               THEN /\ EditorReturns(RequestFailure(input.self, outcome))
                    /\ UNCHANGED remote
               ELSE /\ EditorReturns(Return(Chars("File created successfully")))
                    /\ remote' = AfterWrite([content |-> b64decode(body.content),
                                             sha |-> "f2"])
    /\ UNCHANGED <<input, locals>>

\* line 242
DeleteGetFile ==
    /\ pc = "delete"
    /\ \E outcome \in RequestOutcomes :
        /\ sent' = Append(sent, GetFileRequest(outcome))
        /\ IF outcome # "ok"
           THEN EditorReturns(RequestFailure(input.self, outcome))
                    /\ UNCHANGED locals
           ELSE /\ locals' = FetchedFile @@ locals
                /\ pc' = "delete:delete"
                /\ UNCHANGED output
    /\ UNCHANGED <<input, remote>>

\* lines 243-249
DeleteFile ==
    /\ pc = "delete:delete"
    /\ \E outcome \in RequestOutcomes :
        LET body == [message |-> input.payload.message,
                     sha |-> locals.sha,
                     branch |-> locals.branch]
        IN  /\ sent' = Append(sent,
                   ApiRequest("DELETE",
                       ContentsUrl(locals.owner, locals.repo, input.payload.path),
                       body, outcome))
            /\ IF outcome # "ok"
               THEN /\ EditorReturns(RequestFailure(input.self, outcome))
                    /\ UNCHANGED remote
               ELSE /\ EditorReturns(Return(Chars("File deleted successfully")))
                    /\ remote' = AfterWrite(PyNone)
    /\ UNCHANGED <<input, locals>>

\* lines 139-144: the last commit of the branch is asked for
UndoGetLastCommit ==
    /\ pc = "undo"
    /\ \E outcome \in RequestOutcomes :
        /\ sent' = Append(sent,
               ApiRequest("GET", CommitsUrl(locals.owner, locals.repo),
                          [per_page |-> 1, sha |-> locals.branch], outcome))
        /\ IF outcome # "ok"
           THEN EditorReturns(RequestFailure(input.self, outcome))
                    /\ UNCHANGED locals
           ELSE /\ locals' = [commit_author |-> remote.commits[1].author] @@ locals
                /\ pc' = "undo:user"
                /\ UNCHANGED output
    /\ UNCHANGED <<input, remote>>

\* lines 147-153 and 192-193: the user of the token is asked for and
\* compared with the author
UndoGetUser ==
    /\ pc = "undo:user"
    /\ \E outcome \in RequestOutcomes :
        /\ sent' = Append(sent, ApiRequest("GET", UserUrl, <<>>, outcome))
        /\ IF outcome # "ok"
           THEN EditorReturns(RequestFailure(input.self, outcome))
           ELSE IF ~SameUser(locals.commit_author, remote.user)
           THEN EditorReturns(Return(
                    Chars("Error: Last commit was not made by the current user")))
           ELSE pc' = "undo:commits" /\ UNCHANGED output
    /\ UNCHANGED <<input, remote, locals>>

\* lines 200-204: the two last commits are asked for; the status of the
\* answer is not looked at, so that an error answer, which is no list,
\* makes commits[1] raise KeyError, as a list of one commit makes it raise
\* IndexError; neither is a RequestException
UndoGetCommits ==
    /\ pc = "undo:commits"
    /\ \E outcome \in RequestOutcomes :
        /\ sent' = Append(sent,
               ApiRequest("GET", CommitsUrl(locals.owner, locals.repo),
                          [per_page |-> 2, sha |-> locals.branch], outcome))
        /\ IF outcome = "ConnectionError"
           THEN EditorReturns(RequestFailure(input.self, outcome))
                    /\ UNCHANGED locals
           ELSE IF outcome = "HTTPError"
           THEN EditorReturns(Raise("KeyError")) /\ UNCHANGED locals
           ELSE IF Len(remote.commits) < 2
           THEN EditorReturns(Raise("IndexError")) /\ UNCHANGED locals
           ELSE /\ locals' = [previous_sha |->
                                 previous_sha(SubSeq(remote.commits, 1, 2))]
                                 @@ locals
                /\ pc' = "undo:update"
                /\ UNCHANGED output
    /\ UNCHANGED <<input, remote>>

\* lines 207-211: the branch is set to the previous commit
UndoUpdateRef ==
    /\ pc = "undo:update"
    /\ \E outcome \in RequestOutcomes :
        /\ sent' = Append(sent,
               ApiRequest("PATCH",
                          RefUrl(locals.owner, locals.repo, locals.branch),
                          [sha |-> locals.previous_sha, force |-> TRUE], outcome))
        /\ IF outcome # "ok"
           THEN /\ EditorReturns(RequestFailure(input.self, outcome))
                /\ UNCHANGED remote
           ELSE /\ EditorReturns(Return(Chars("Successfully undid last change")))
                /\ remote' =
                     [remote EXCEPT
                        !.commits = ResetTo(@, locals.previous_sha),
                        !.removed = @ \cup
                            {remote.commits[k] :
                                k \in 1..(Len(remote.commits)
                                    - Len(ResetTo(remote.commits,
                                                  locals.previous_sha)))}]
    /\ UNCHANGED <<input, locals>>

(***************************************************************************)
(* Specification of GithubFileEditor.run: one call, on a branch of up to   *)
(* MaxCommits commits to which other users push up to MaxPushes commits    *)
(* while the call runs.                                                    *)
(***************************************************************************)
MaxCommits == 3
MaxPushes == 2

PushShas == <<"p1", "p2", "p3">>

\* another user pushes a commit to the branch
Push ==
    /\ pc \notin {"ready", EditorDone}
    /\ remote.pushes < MaxPushes
    /\ remote' = [remote EXCEPT
                    !.commits = <<Commit(PushShas[remote.pushes + 1], OtherUser)>>
                                    \o @,
                    !.pushes = @ + 1]
    /\ UNCHANGED <<input, output, pc, sent, locals>>

EditorKwargs ==
    {<<>>} \cup [repo : {PyNone, PyStr(Chars("o/r"))}, raise_on_failure : BOOLEAN]

FileContents ==
    {<<>>, Chars("a"), Chars("aa"), Chars("aaa"), Chars("ab"), Chars("aba"),
     Chars("abab"), Chars("b")}

Originals == {<<>>, Chars("a"), Chars("aa"), Chars("ab"), Chars("b")}

Payload(original) ==
    [path |-> Chars("f.py"), original |-> original,
     replacement |-> Chars("Z"), message |-> Chars("m"),
     content |-> Chars("new")]

CommitShas == <<"c1", "c2", "c3", "c4">>

\* the branches of 1 to MaxCommits commits, each of one of the two users
Branches ==
    UNION {{[k \in 1..n |-> Commit(CommitShas[k], authors[k])] :
                authors \in [1..n -> {CurrentUser, OtherUser}]} :
              n \in 1..MaxCommits}

Service(content, commits) ==
    [file |-> [content |-> content, sha |-> "f1"], commits |-> commits,
     user |-> CurrentUser, removed |-> {}, pushes |-> 0]

InitEditor ==
    /\ \E kwargs \in EditorKwargs,
          command \in Commands \cup {"rename"},
          original \in Originals,
          repo \in {PyNone, PyStr(Chars("o/r"))},
          branch \in {PyNone, PyStr(Chars("dev"))} :
           /\ command # "edit" => original = Chars("a")
           /\ input = [kwargs |-> kwargs, self |-> GithubFileEditor_init(kwargs),
                       command |-> command, payload |-> Payload(original),
                       repo |-> repo, branch |-> branch]
    /\ \E content \in FileContents, commits \in Branches :
           /\ input.command # "edit" => content = Chars("ab")
           /\ input.command # "undo" =>
                  commits = <<Commit("c1", CurrentUser), Commit("c2", OtherUser)>>
           /\ remote = Service(content, commits)
    /\ sent = <<>>
    /\ locals = <<>>
    /\ output = Return(<<>>)
    /\ pc = "ready"

NextEditor ==
    \/ EditorRun
    \/ EditGetFile \/ EditUpdateFile
    \/ CreateFile
    \/ DeleteGetFile \/ DeleteFile
    \/ UndoGetLastCommit \/ UndoGetUser \/ UndoGetCommits \/ UndoUpdateRef
    \/ Push

SpecEditor == InitEditor /\ [][NextEditor]_vars

(***************************************************************************)
(* Properties of GithubFileEditor                                          *)
(***************************************************************************)
LastSent == sent[Len(sent)]

IsUpdate(req) == req.method = "PUT"
IsRefUpdate(req) == req.method = "PATCH"

Result(text) == Return([result |-> Chars(text)])

\* the positions of the file content at which the original string stands
OccurrencePositions(content, original) ==
    {p \in 1..(Len(content) - Len(original) + 1) :
        SubSeq(content, p, p + Len(original) - 1) = original}

\* the content with the occurrence at p replaced
ReplacedAt(content, p, original, replacement) ==
    SubSeq(content, 1, p - 1) \o replacement
        \o SubSeq(content, p + Len(original), Len(content))

\* C21: once _edit_file has fetched the file, an update request is sent if
\* and only if the original string occurs exactly once in the fetched
\* content: with no occurrence the result is 'Error: Original string not
\* found in file', with more than one it is 'Error: Original string appears
\* multiple times. Please provide more context', and no update is sent;
\* with one occurrence the update carries the content with that occurrence
\* replaced and the sha of the same fetch, and its success gives
\* 'Edit successful'.
C21_UniquenessGuard ==
    (/\ input.command = "edit"
     /\ pc = EditorDone
     /\ Len(sent) >= 1
     /\ sent[1].outcome = "ok")
    => LET fetched == IF LastSent.outcome = "ok" /\ IsUpdate(LastSent)
                      THEN [content |-> locals.content, sha |-> locals.sha]
                      ELSE remote.file
           original == input.payload.original
           at == OccurrencePositions(fetched.content, original)
       IN  /\ (\E k \in 1..Len(sent) : IsUpdate(sent[k])) <=> Cardinality(at) = 1
           /\ at = {} =>
                  output = Result("Error: Original string not found in file")
           /\ Cardinality(at) > 1 =>
                  output = Result("Error: Original string appears multiple times. Please provide more context")
           /\ Cardinality(at) = 1 =>
                  /\ Len(sent) = 2
                  /\ sent[2].body.content =
                         b64encode(ReplacedAt(fetched.content, CHOOSE p \in at : TRUE,
                                              original, input.payload.replacement))
                  /\ sent[2].body.sha = fetched.sha
                  /\ sent[2].outcome = "ok" => output = Result("Edit successful")

\* line 201 does not call raise_for_status: an error status of that request
\* raises no RequestException
IsCommitPair(req) ==
    /\ req.method = "GET"
    /\ "per_page" \in DOMAIN req.body
    /\ req.body.per_page = 2

RaisesRequestException(req) ==
    \/ req.outcome = "ConnectionError"
    \/ req.outcome = "HTTPError" /\ ~IsCommitPair(req)

\* C22: when a request of the edit, undo, create or delete handler fails
\* with a RequestException, the exception goes on to the caller if
\* raise_on_failure is True, and otherwise the handler returns
\* 'Error: <exception message>' without raising.
C22_RequestFailurePolicy ==
    (/\ input.command \in Commands
     /\ pc = EditorDone
     /\ Len(sent) >= 1
     /\ RaisesRequestException(LastSent))
    => IF input.self.raise_on_failure
       THEN output = Raise(LastSent.outcome)
       ELSE output = Return([result |->
                Chars("Error: ") \o
                    (IF LastSent.outcome = "ConnectionError"
                     THEN Chars("Connection refused")
                     ELSE Chars("404 Client Error"))])

\* every handler fails at its last request without raising
C22_Witness ==
    /\ pc = EditorDone
    /\ ~input.self.raise_on_failure
    /\ Len(sent) >= 1
    /\ RaisesRequestException(LastSent)
    /\ IsRefUpdate(LastSent)
    /\ output = Result("Error: Connection refused")

\* the last-commit check has been made and has succeeded
CheckSucceeded ==
    /\ Len(sent) >= 2
    /\ sent[1].method = "GET" /\ sent[1].outcome = "ok"
    /\ sent[1].body = [per_page |-> 1, sha |-> locals.branch]
    /\ sent[2].method = "GET" /\ sent[2].url = UserUrl /\ sent[2].outcome = "ok"
    /\ locals.commit_author = remote.user

\* C23: _undo_changes sends the forced ref update only after the
\* last-commit check has succeeded; if the author of the last commit is not
\* the user of the token, the result is 'Error: Last commit was not made by
\* the current user' and no ref update is ever sent; after a successful
\* check the single ref update sets the branch to the sha of the second of
\* the two most recent commits with force=True, and the result is
\* 'Successfully undid last change'.
C23_UndoStep ==
    /\ input.command = "undo"
    /\ (\A k \in 1..Len(sent') :
            IsRefUpdate(sent'[k]) => k = Len(sent') /\ k > 2 /\ CheckSucceeded')
    /\ (/\ pc = "undo:user"
        /\ sent' # sent
        /\ sent'[Len(sent')].outcome = "ok"
        /\ locals.commit_author # remote.user)
       => /\ pc' = EditorDone
          /\ output' = Result("Error: Last commit was not made by the current user")
    /\ (/\ pc' = EditorDone
        /\ "commit_author" \in DOMAIN locals'
        /\ locals'.commit_author # remote'.user)
       => \A k \in 1..Len(sent') : ~IsRefUpdate(sent'[k])
    /\ (pc = "undo:commits" /\ pc' = "undo:update")
       => locals'.previous_sha = remote.commits[2].sha
    /\ (pc = "undo:update" /\ sent' # sent)
       => /\ pc' = EditorDone
          /\ IsRefUpdate(sent'[Len(sent')])
          /\ sent'[Len(sent')].url =
                 RefUrl(locals.owner, locals.repo, locals.branch)
          /\ sent'[Len(sent')].body = [sha |-> locals.previous_sha, force |-> TRUE]
          /\ sent'[Len(sent')].outcome = "ok" =>
                 /\ output' = Result("Successfully undid last change")
                 /\ remote'.commits[1].sha = locals.previous_sha

C23_UndoGuard == [][input.command = "undo" => C23_UndoStep]_vars

C23_Witness ==
    /\ input.command = "undo"
    /\ pc = EditorDone
    /\ Len(sent) = 4
    /\ IsRefUpdate(sent[4])
    /\ sent[4].outcome = "ok"
    /\ remote.pushes = 0
    /\ remote.removed = {Commit("c1", CurrentUser)}
    /\ output = Result("Successfully undid last change")

\* C29: whatever other users push to the branch between the last-commit
\* check, the fetch of the two most recent commits and the forced ref
\* update of an UNDO, the only commit removed from the branch is one of
\* the user of the token.
C29_UndoRemovesOwnCommitOnly ==
    input.command = "undo" =>
        /\ Cardinality(remote.removed) <= 1
        /\ \A c \in remote.removed : c.author = CurrentUser

====
